---- MODULE Spec2Model ----
(***************************************************************************)
(* Model of the ScreenControl service agent (datagram1/screen_control):    *)
(* the update pipeline (update_manager.cpp), the shell session manager     *)
(* (shell_tools.cpp) and the control-server protocol client               *)
(* (websocket_client.cpp).  Each component has its own next-state relation *)
(* and specification over the shared variable tuple.                       *)
(***************************************************************************)
EXTENDS Integers, Sequences, FiniteSets, TLC

(***************************************************************************)
(* Bounds of the model.                                                    *)
(***************************************************************************)
\* UpdateConfig::checkIntervalHeartbeats, scaled down from its default 60
CheckIntervalHeartbeats == 2
\* UpdateConfig::failedRetryTimeoutSeconds, scaled down from its default 600
FailedRetryTimeoutSeconds == 2
\* the steady clock is followed up to this many seconds
MaxTime == 3
\* shell sessions started in one run
MaxSessions == 3
\* transport sockets opened in one run
MaxConnections == 2
\* relayCommand calls in one run
MaxRelays == 2
\* frames written to the socket in one run
MaxFrames == 3
\* text frames the server sends in one run
MaxTextFrames == 3
\* the read buffer of receiveLoop, in units of half a frame
BufferUnits == 4

(***************************************************************************)
(* Update pipeline: values.                                                *)
(***************************************************************************)
\* enum class UpdateStatus
UpdateStatus ==
    {"IDLE", "CHECKING", "AVAILABLE", "DOWNLOADING", "DOWNLOADED",
     "INSTALLING", "FAILED", "UP_TO_DATE"}

\* the update flag of a heartbeat_ack: 0 none, 1 available, 2 forced
UpdateFlags == {0, 1, 2}

\* hex digests a check response can declare in "sha256" ("" when the field
\* is absent or empty); two-character stand-ins for 64-character strings
DeclaredDigests == {"", "aa", "AA"}

\* hex digests verifyChecksum can compute: std::hex prints lower case
ComputedDigests == {"aa", "bb"}

\* installerRun before applyUpdate has entered the installer
NoRun == [declared |-> "none", computed |-> "none"]

VARIABLES
    m_status,           \* UpdateManager::m_status
    m_heartbeatCount,   \* UpdateManager::m_heartbeatCount
    m_failedTimestamp,  \* UpdateManager::m_failedTimestamp
    m_updateInfo,       \* UpdateManager::m_updateInfo (sha256, isForced)
    m_cancelDownload,   \* UpdateManager::m_cancelDownload
    m_updateConfig,     \* UpdateManager::m_config (autoDownload, autoInstall)
    m_workerThread,     \* UpdateManager::m_workerThread and the lambda's position
    updCaller,          \* position of the thread calling into UpdateManager
    fileHash,           \* SHA-256 of the file at m_downloadPath ("" = no file)
    installerRun,       \* the last install entered: declared and computed digest
    exited,             \* the installer script was launched and exit(0) called
    now,                \* std::chrono::steady_clock, in seconds
    g_sessions,         \* shell_tools.cpp g_sessions: session id -> ShellSession
    sessionCount,       \* number of session ids generateSessionId has returned
    children,           \* child process of each session: running, zombie, reaped
    openFds,            \* PTY master descriptors that are open
    spawnedCommands,    \* commands for which a child process was spawned
    startedIds,         \* session ids returned by a successful start_session
    stoppedIds,         \* session ids for which stop_session returned success
    shellResult,        \* the JSON result of the last shell operation
    failedSince,        \* the time m_status most recently became FAILED
    m_connected,        \* WebSocketClient::m_connected
    m_running,          \* WebSocketClient::m_running
    m_stopHeartbeat,    \* WebSocketClient::m_stopHeartbeat
    m_socket,           \* WebSocketClient::m_socket (0 stands for -1)
    m_receiveThread,    \* WebSocketClient::m_receiveThread and receiveLoop's position
    m_heartbeatThread,  \* WebSocketClient::m_heartbeatThread and its lambda's position
    m_commandCallback,  \* whether WebSocketClient::m_commandCallback is set
    wsCaller,           \* the thread inside connect / disconnect / reconnect
    socketCount,        \* number of sockets tcpConnect has created
    openSockets,        \* sockets of this process that are open
    peerUp,             \* sockets whose transport to the server is alive
    registeredOn,       \* sockets on which a registered message was received
    received,           \* request messages handed to handleRequest: <<socket, id>>
    responses,          \* response frames written: <<socket, id>> -> count
    terminated,         \* std::terminate was called
    m_relayCallbacks,   \* WebSocketClient::m_relayCallbacks (its keys)
    relayCount,         \* number of relayCommand calls
    relayInvoked,       \* how often each stored completion handler was invoked
    m_sendMutex,        \* WebSocketClient::m_sendMutex: the thread holding it
    sender,             \* each thread's position in sending a frame
    wire,               \* the halves of frames in the order they reached the socket
    frameCount,         \* number of frames built
    connectionNotified, \* the argument of the last m_connectionCallback call
    stream,             \* what the server has sent and receiveLoop has not read yet
    framesSent,         \* number of text frames the server has sent
    delivered,          \* the payloads handed to handleMessage, in order
    readerStopped,      \* receiveLoop has left its loop
    textPayload,        \* the payload last passed to sendWebSocketFrame
    textFrame,          \* the frame sendWebSocketFrame built for it
    pingPayload,        \* the payload of the last ping frame received
    pongFrame,          \* the pong frame receiveLoop built for it
    platform,           \* "posix" or "windows": the variant of the protocol client that was built
    m_permissions,      \* m_masterModeEnabled, m_fileTransferEnabled, m_localSettingsLocked
    m_permissionsCallback, \* TRUE when a permissions callback is registered
    permissionsNotified, \* the calls of the permissions callback made by the last ack
    m_heartbeatCallback, \* TRUE when a heartbeat callback is registered
    heartbeatNotified,  \* the calls of the heartbeat callback made by the last ack
    m_guiProxy,         \* TRUE when CommandDispatcher::m_guiProxy is set
    guiListening,       \* TRUE when a GUI helper listens on the loopback GUI port
    dispatchCall,       \* the method and params of the last request handled
    dispatchReturn,     \* what dispatch returned for it and the tool calls it made
    responseFrame,      \* the response message built for it
    httpCaller,         \* a second thread inside connect(): "idle" or "spawnReader"
    reconnectAttempts,  \* main: int reconnectAttempts
    reconnectDelay,     \* main: int delay, as last computed
    supervisorPc,       \* the main loop: "check" or "reconnect"
    isConnected,        \* wsClient.isConnected() as the main loop sees it
    configFile,         \* the file at the target path: whose document, and how much of it
    savePc,             \* ConnectionConfig::save: "idle" or "open"
    saving,             \* the configuration save is writing
    committed,          \* the configuration of the last save that returned true
    loaded,             \* what the last ConnectionConfig::load found
    g_sessionMutex,     \* the thread holding g_sessionMutex, 0 when it is free
    sessionTable,       \* g_sessions as seen by concurrent callers: session id to its ptyMasterFd, 0 when absent
    fdOwner,            \* the process descriptor table: descriptor to the session it was opened for, 0 when closed
    idsDrawn,           \* how many session ids generateSessionId has returned
    shellThread,        \* each calling thread: its position, the operation, the session id and the descriptor it holds
    lastSyscall,        \* the last system call made on a session: where, by whom, and under which conditions
    m_masterModeEnabled, \* std::atomic<bool> m_masterModeEnabled
    m_fileTransferEnabled, \* std::atomic<bool> m_fileTransferEnabled
    m_localSettingsLocked, \* std::atomic<bool> m_localSettingsLocked
    ackPc,              \* the reader thread inside handleHeartbeatAck: the store it makes next
    ackBits,            \* the three booleans of the ack being latched
    ackBefore,          \* the triple the atomics held when that ack arrived
    statusPc,           \* the HTTP worker inside GET /control-server/status: the getter it calls next
    statusResponse,     \* the "permissions" object of the status response as far as it is built
    statusWindow,       \* the triples that were latched at some moment since the status handler began
    g_running,          \* static std::atomic<bool> g_running of main
    loopPc,             \* the main thread: its position in the supervisor loop and in reconnect()
    clientConnected,    \* what wsClient.isConnected() returns
    connectionsOpened,  \* connections connect() has established
    registersSent,      \* register frames sendRegistration() has written
    lastOp              \* the operation performed by the last step

updVars ==
    <<m_status, m_heartbeatCount, m_failedTimestamp, failedSince, m_updateInfo,
      m_cancelDownload, m_updateConfig, m_workerThread, updCaller, fileHash,
      installerRun, exited, now>>

shellVars ==
    <<g_sessions, sessionCount, children, openFds, spawnedCommands,
      startedIds, stoppedIds, shellResult>>

wsVars ==
    <<m_connected, m_running, m_stopHeartbeat, m_socket, m_receiveThread,
      m_heartbeatThread, m_commandCallback, wsCaller, socketCount,
      openSockets, peerUp, registeredOn, received,
      responses, terminated>>

\* the relay bookkeeping of the protocol client
relayVars == <<m_relayCallbacks, relayCount, relayInvoked>>

\* the writers of the transport socket
sendVars == <<m_sendMutex, sender, wire, frameCount>>

\* the connection notifications of the protocol client
notifyVars == <<connectionNotified>>

\* the incoming byte stream of the protocol client
framingVars == <<stream, framesSent, delivered, readerStopped>>

\* the frames the protocol client builds
codecVars == <<textPayload, textFrame, pingPayload, pongFrame>>

\* the permissions latched from heartbeat acknowledgements
permVars ==
    <<platform, m_permissions, m_permissionsCallback, permissionsNotified,
      m_heartbeatCallback, heartbeatNotified>>

\* the command dispatcher and the response to a request
dispatchVars == <<m_guiProxy, guiListening, dispatchCall, dispatchReturn, responseFrame>>

\* callers of connect() that run next to the first one
callerVars == <<httpCaller>>

\* the supervisor loop of main
supervisorVars == <<reconnectAttempts, reconnectDelay, supervisorPc, isConnected>>

\* connection.json and its writer
configVars == <<configFile, savePc, saving, committed, loaded>>

\* the session table under concurrent callers
lockVars == <<g_sessionMutex, sessionTable, fdOwner, idsDrawn, shellThread, lastSyscall>>

\* the permission bits as three atomics, their writer and a reader
latchVars == <<m_masterModeEnabled, m_fileTransferEnabled, m_localSettingsLocked, ackPc, ackBits, ackBefore, statusPc, statusResponse, statusWindow>>

\* the supervisor loop with the shutdown handler and the loopback API
loopVars == <<g_running, loopPc, clientConnected, connectionsOpened, registersSent>>

\* what the update pipeline does not touch
nonUpdVars == <<shellVars, wsVars, relayVars,
      sendVars,
      notifyVars,
      framingVars,
      codecVars,
      permVars,
      dispatchVars,
      callerVars,
      supervisorVars,
      configVars,
      lockVars,
      latchVars,
      loopVars>>

\* what the shell session manager does not touch
nonShellVars == <<updVars, wsVars, relayVars,
      sendVars,
      notifyVars,
      framingVars,
      codecVars,
      permVars,
      dispatchVars,
      callerVars,
      supervisorVars,
      configVars,
      lockVars,
      latchVars,
      loopVars>>

\* what the connection handling of the protocol client does not touch
nonWsVars == <<updVars, shellVars, relayVars,
      sendVars,
      notifyVars,
      framingVars,
      codecVars,
      permVars,
      dispatchVars,
      callerVars,
      supervisorVars,
      configVars,
      lockVars,
      latchVars,
      loopVars>>

\* what neither the connection handling nor the relay bookkeeping touches
nonClientVars == <<updVars, shellVars,
      sendVars,
      notifyVars,
      framingVars,
      codecVars,
      permVars,
      dispatchVars,
      callerVars,
      supervisorVars,
      configVars,
      lockVars,
      latchVars,
      loopVars>>

\* what the writers of the transport socket do not touch
nonSendVars ==
    <<updVars, shellVars, wsVars, relayVars,
      notifyVars,
      framingVars,
      codecVars,
      permVars,
      dispatchVars,
      callerVars,
      supervisorVars,
      configVars,
      lockVars,
      latchVars,
      loopVars>>

\* what neither the connection handling nor its notifications touch
nonWsNotifyVars ==
    <<updVars, shellVars, relayVars, sendVars,
      framingVars,
      codecVars,
      permVars,
      dispatchVars,
      callerVars,
      supervisorVars,
      configVars,
      lockVars,
      latchVars,
      loopVars>>

\* what the frame parser does not touch
nonFramingVars ==
    <<updVars, shellVars, wsVars, relayVars, sendVars, notifyVars,
      codecVars,
      permVars,
      dispatchVars,
      callerVars,
      supervisorVars,
      configVars,
      lockVars,
      latchVars,
      loopVars>>

\* what building a frame does not touch
nonCodecVars ==
    <<updVars, shellVars, wsVars, relayVars, sendVars, notifyVars, framingVars,
      permVars,
      dispatchVars,
      callerVars,
      supervisorVars,
      configVars,
      lockVars,
      latchVars,
      loopVars>>

\* what handling a heartbeat_ack does not touch
nonPermVars ==
    <<updVars, shellVars, wsVars, relayVars, sendVars, notifyVars, framingVars, codecVars,
      dispatchVars,
      callerVars,
      supervisorVars,
      configVars,
      lockVars,
      latchVars,
      loopVars>>

\* what dispatching a command does not touch
nonDispatchVars ==
    <<updVars, shellVars, wsVars, relayVars, sendVars, notifyVars, framingVars, codecVars, permVars,
      callerVars,
      supervisorVars,
      configVars,
      lockVars,
      latchVars,
      loopVars>>

\* what a second caller does not touch by itself
nonCallerVars ==
    <<updVars, shellVars, wsVars, relayVars, sendVars, notifyVars, framingVars, codecVars, permVars, dispatchVars,
      supervisorVars,
      configVars,
      lockVars,
      latchVars,
      loopVars>>

\* what the supervisor loop does not touch
nonSupervisorVars ==
    <<updVars, shellVars, wsVars, relayVars, sendVars, notifyVars, framingVars, codecVars, permVars, dispatchVars, callerVars,
      configVars,
      lockVars,
      latchVars,
      loopVars>>

\* what saving and loading connection.json does not touch
nonConfigVars ==
    <<updVars, shellVars, wsVars, relayVars, sendVars, notifyVars, framingVars, codecVars, permVars, dispatchVars, callerVars, supervisorVars,
      lockVars,
      latchVars,
      loopVars>>

\* what a caller inside connect() does not touch
nonReplyVars ==
    <<updVars, shellVars, relayVars, sendVars, framingVars, codecVars,
      permVars, dispatchVars, supervisorVars, configVars,
      lockVars,
      latchVars,
      loopVars>>

\* what concurrent shell callers do not touch
nonLockVars ==
    <<updVars, shellVars, wsVars, relayVars, sendVars, notifyVars, framingVars, codecVars, permVars, dispatchVars, callerVars, supervisorVars, configVars,
      latchVars,
      loopVars>>

\* what latching and reading the permission bits does not touch
nonLatchVars ==
    <<updVars, shellVars, wsVars, relayVars, sendVars, notifyVars, framingVars, codecVars, permVars, dispatchVars, callerVars, supervisorVars, configVars, lockVars,
      loopVars>>

\* what the supervisor loop and the shutdown handler do not touch
nonLoopVars ==
    <<updVars, shellVars, wsVars, relayVars, sendVars, notifyVars, framingVars, codecVars, permVars, dispatchVars, callerVars, supervisorVars, configVars, lockVars, latchVars>>

vars == <<updVars, shellVars, wsVars, relayVars,
      sendVars,
      notifyVars,
      framingVars,
      codecVars,
      permVars,
      dispatchVars,
      callerVars,
      supervisorVars,
      configVars,
      lockVars,
      latchVars,
      loopVars, lastOp>>

(***************************************************************************)
(* Update pipeline: helpers.                                               *)
(***************************************************************************)
\* bool UpdateManager::verifyChecksum(filepath, expectedSha256); opened is
\* whether the file could be opened, calculatedHash the hex of its SHA-256
verifyChecksum(opened, calculatedHash, expectedSha256) ==
    IF expectedSha256 = ""
    THEN TRUE                       \* "No checksum provided, skipping verification"
    ELSE opened /\ calculatedHash = expectedSha256

\* std::thread::joinable() of m_workerThread
workerJoinable == m_workerThread.pc # "none"

\* m_workerThread.join() returns once the lambda has run to its end
workerFinished == m_workerThread.pc = "done"

\* m_status = FAILED; m_failedTimestamp = steady_clock::now()
setFailed ==
    /\ m_status' = "FAILED"
    /\ m_failedTimestamp' = now
    /\ failedSince' = now

\* the same two statements on the worker thread, which onHeartbeat on the
\* reader thread can run between: here the first, m_status = FAILED
workerSetFailed ==
    /\ m_status' = "FAILED"
    /\ failedSince' = now
    /\ m_workerThread' = [m_workerThread EXCEPT !.pc = "f_stamp"]
    /\ UNCHANGED m_failedTimestamp

UpdInit ==
    /\ m_status = "IDLE"
    /\ m_heartbeatCount = 0
    /\ m_failedTimestamp = 0
    /\ failedSince = 0
    /\ m_updateInfo = [sha256 |-> "", isForced |-> FALSE]
    /\ m_cancelDownload = FALSE
    /\ m_updateConfig = [autoDownload |-> TRUE, autoInstall |-> FALSE]
    /\ m_workerThread = [kind |-> "none", pc |-> "none"]
    /\ updCaller = "idle"
    /\ fileHash = ""
    /\ installerRun = NoRun
    /\ exited = FALSE
    /\ now = 0

(***************************************************************************)
(* Update pipeline: operations called from outside the worker thread.      *)
(* m_workerThread.join() blocks the caller, so a call that has to join is  *)
(* two steps: the call up to the join, and the spawn after it.             *)
(***************************************************************************)
\* the status onHeartbeat sees after its reset of a timed-out FAILED state
\* configure(config), called once by main before the service starts
configure(config) ==
    /\ lastOp.op = "init"
    /\ m_updateConfig' = config
    /\ lastOp' = [op |-> "configure", arg |-> 0, was |-> m_status]
    /\ UNCHANGED <<m_status, m_heartbeatCount, m_failedTimestamp, failedSince,
                   m_updateInfo, m_cancelDownload, m_workerThread, updCaller,
                   fileHash, installerRun, exited, now>>
    /\ UNCHANGED nonUpdVars

statusAfterFailedReset ==
    IF m_status = "FAILED" /\ now - m_failedTimestamp >= FailedRetryTimeoutSeconds
    THEN "IDLE"
    ELSE m_status

\* a plausible slip in the interval test: <= instead of <
intervalNotReached_offByOne ==
    m_heartbeatCount + 1 <= CheckIntervalHeartbeats

\* onHeartbeat: "if (m_heartbeatCount < m_config.checkIntervalHeartbeats) return;"
\* evaluated after m_heartbeatCount++
intervalNotReached ==
    m_heartbeatCount + 1 < CheckIntervalHeartbeats

\* void UpdateManager::onHeartbeat(int updateFlag)
onHeartbeat(updateFlag) ==
    /\ ~exited /\ updCaller = "idle"
    /\ lastOp' = [op |-> "onHeartbeat", arg |-> updateFlag, was |-> m_status]
    /\ UNCHANGED nonUpdVars
    /\ IF intervalNotReached
       THEN /\ m_heartbeatCount' = m_heartbeatCount + 1
            /\ UNCHANGED <<m_status, updCaller, installerRun>>
       ELSE /\ m_heartbeatCount' = 0
            /\ IF updateFlag > 0
               THEN IF updateFlag = 2 /\ statusAfterFailedReset = "DOWNLOADED"
                    THEN \* applyUpdate(): "Forced update - applying immediately"
                         /\ m_status' = "INSTALLING"
                         /\ installerRun' = [declared |-> m_updateInfo.sha256, computed |-> fileHash]
                         /\ updCaller' = "installing"
                    ELSE IF statusAfterFailedReset \in {"IDLE", "UP_TO_DATE"}
                    THEN \* checkForUpdate(): neither CHECKING nor DOWNLOADING
                         /\ m_status' = statusAfterFailedReset
                         /\ updCaller' = "join_check"
                         /\ UNCHANGED installerRun
                    ELSE /\ m_status' = statusAfterFailedReset
                         /\ UNCHANGED <<updCaller, installerRun>>
               ELSE /\ m_status' = statusAfterFailedReset
                    /\ UNCHANGED <<updCaller, installerRun>>
    /\ UNCHANGED <<m_failedTimestamp, failedSince, m_updateInfo, m_cancelDownload,
                   m_updateConfig, m_workerThread, fileHash, exited, now>>

\* void UpdateManager::checkForUpdate(), up to m_workerThread.join()
checkForUpdate ==
    /\ ~exited /\ updCaller = "idle"
    /\ lastOp' = [op |-> "checkForUpdate", arg |-> 0, was |-> m_status]
    /\ UNCHANGED nonUpdVars
    /\ IF m_status \in {"CHECKING", "DOWNLOADING"}
       THEN UNCHANGED updCaller          \* "Already in progress"
       ELSE updCaller' = "join_check"
    /\ UNCHANGED <<m_status, m_heartbeatCount, m_failedTimestamp, failedSince, m_updateInfo,
                   m_cancelDownload, m_updateConfig, m_workerThread, fileHash,
                   installerRun, exited, now>>

\* checkForUpdate(): the join has returned; m_workerThread = std::thread(...)
spawnCheck ==
    /\ ~exited /\ updCaller = "join_check"
    /\ ~workerJoinable \/ workerFinished
    /\ m_workerThread' = [kind |-> "check", pc |-> "c_start"]
    /\ updCaller' = "idle"
    /\ lastOp' = [op |-> "spawnCheck", arg |-> 0, was |-> m_status]
    /\ UNCHANGED nonUpdVars
    /\ UNCHANGED <<m_status, m_heartbeatCount, m_failedTimestamp, failedSince, m_updateInfo,
                   m_cancelDownload, m_updateConfig, fileHash, installerRun,
                   exited, now>>

\* void UpdateManager::downloadUpdate() called from outside the worker, up to
\* m_workerThread.join()
downloadUpdate ==
    /\ ~exited /\ updCaller = "idle"
    /\ lastOp' = [op |-> "downloadUpdate", arg |-> 0, was |-> m_status]
    /\ UNCHANGED nonUpdVars
    /\ IF m_status # "AVAILABLE"
       THEN UNCHANGED updCaller
       ELSE updCaller' = "join_download"
    /\ UNCHANGED <<m_status, m_heartbeatCount, m_failedTimestamp, failedSince, m_updateInfo,
                   m_cancelDownload, m_updateConfig, m_workerThread, fileHash,
                   installerRun, exited, now>>

\* downloadUpdate(): the join has returned; m_cancelDownload = false and
\* m_workerThread = std::thread(...)
spawnDownload ==
    /\ ~exited /\ updCaller = "join_download"
    /\ ~workerJoinable \/ workerFinished
    /\ m_cancelDownload' = FALSE
    /\ m_workerThread' = [kind |-> "download", pc |-> "d_start"]
    /\ updCaller' = "idle"
    /\ lastOp' = [op |-> "spawnDownload", arg |-> 0, was |-> m_status]
    /\ UNCHANGED nonUpdVars
    /\ UNCHANGED <<m_status, m_heartbeatCount, m_failedTimestamp, failedSince, m_updateInfo,
                   m_updateConfig, fileHash, installerRun, exited, now>>

\* void UpdateManager::applyUpdate() called from outside the worker, up to the
\* platform installer
applyUpdate ==
    /\ ~exited /\ updCaller = "idle"
    /\ lastOp' = [op |-> "applyUpdate", arg |-> 0, was |-> m_status]
    /\ UNCHANGED nonUpdVars
    /\ IF m_status # "DOWNLOADED"
       THEN UNCHANGED <<m_status, updCaller, installerRun>>   \* "not downloaded"
       ELSE /\ m_status' = "INSTALLING"
            /\ installerRun' = [declared |-> m_updateInfo.sha256, computed |-> fileHash]
            /\ updCaller' = "installing"
    /\ UNCHANGED <<m_heartbeatCount, m_failedTimestamp, failedSince, m_updateInfo,
                   m_cancelDownload, m_updateConfig, m_workerThread, fileHash,
                   exited, now>>

\* applyUpdateLinux / applyUpdateMacOS / applyUpdateWindows on the caller's
\* thread: the script is launched and the process exits, or the installer
\* returns false and applyUpdate sets FAILED
applyUpdatePlatform ==
    /\ ~exited /\ updCaller = "installing"
    /\ lastOp' = [op |-> "applyUpdatePlatform", arg |-> 0, was |-> m_status]
    /\ UNCHANGED nonUpdVars
    /\ \E success \in BOOLEAN :
         IF success
         THEN /\ exited' = TRUE
              /\ UNCHANGED <<m_status, m_failedTimestamp, failedSince, updCaller>>
         ELSE /\ setFailed
              /\ updCaller' = "idle"
              /\ UNCHANGED exited
    /\ UNCHANGED <<m_heartbeatCount, m_updateInfo, m_cancelDownload,
                   m_updateConfig, m_workerThread, fileHash, installerRun, now>>

\* void UpdateManager::cancelDownload()
cancelDownload ==
    /\ ~exited /\ updCaller = "idle"
    /\ m_cancelDownload' = TRUE
    /\ lastOp' = [op |-> "cancelDownload", arg |-> 0, was |-> m_status]
    /\ UNCHANGED nonUpdVars
    /\ UNCHANGED <<m_status, m_heartbeatCount, m_failedTimestamp, failedSince, m_updateInfo,
                   m_updateConfig, m_workerThread, updCaller, fileHash,
                   installerRun, exited, now>>

\* one second of the steady clock passes
Tick ==
    /\ ~exited /\ now < MaxTime
    /\ now' = now + 1
    /\ lastOp' = [op |-> "Tick", arg |-> 0, was |-> m_status]
    /\ UNCHANGED nonUpdVars
    /\ UNCHANGED <<m_status, m_heartbeatCount, m_failedTimestamp, failedSince, m_updateInfo,
                   m_cancelDownload, m_updateConfig, m_workerThread, updCaller,
                   fileHash, installerRun, exited>>

(***************************************************************************)
(* Update pipeline: the worker thread's lambdas, one step per status       *)
(* assignment.                                                             *)
(***************************************************************************)
\* the op record of a worker step
workerOp(name) ==
    [op |-> name, arg |-> 0, was |-> m_status]

\* checkForUpdate lambda: m_status = CHECKING
workerCheckStart ==
    /\ ~exited /\ m_workerThread = [kind |-> "check", pc |-> "c_start"]
    /\ m_status' = "CHECKING"
    /\ m_workerThread' = [m_workerThread EXCEPT !.pc = "c_http"]
    /\ lastOp' = workerOp("workerCheckStart")
    /\ UNCHANGED nonUpdVars
    /\ UNCHANGED <<m_heartbeatCount, m_failedTimestamp, failedSince, m_updateInfo,
                   m_cancelDownload, m_updateConfig, updCaller, fileHash,
                   installerRun, exited, now>>

\* checkForUpdate lambda: httpGet and the parse of its response.  outcome is
\* what the server and the network produce: "http_failed", "parse_failed",
\* "up_to_date" or "available" with the UpdateInfo fields of the response
workerCheckResponse ==
    /\ ~exited /\ m_workerThread = [kind |-> "check", pc |-> "c_http"]
    /\ lastOp' = workerOp("workerCheckResponse")
    /\ UNCHANGED nonUpdVars
    /\ \E outcome \in {"http_failed", "parse_failed", "up_to_date", "available"},
          sha \in DeclaredDigests, forced \in BOOLEAN :
         CASE outcome \in {"http_failed", "parse_failed"} ->
                /\ workerSetFailed
                /\ UNCHANGED m_updateInfo
           [] outcome = "up_to_date" ->
                /\ m_status' = "UP_TO_DATE"
                /\ m_workerThread' = [m_workerThread EXCEPT !.pc = "done"]
                /\ UNCHANGED <<m_updateInfo, m_failedTimestamp, failedSince>>
           [] outcome = "available" ->
                /\ m_updateInfo' = [sha256 |-> sha, isForced |-> forced]
                /\ m_status' = "AVAILABLE"
                /\ m_workerThread' = [m_workerThread EXCEPT !.pc = "c_avail"]
                /\ UNCHANGED <<m_failedTimestamp, failedSince>>
    /\ UNCHANGED <<m_heartbeatCount, m_cancelDownload, m_updateConfig,
                   updCaller, fileHash, installerRun, exited, now>>

\* checkForUpdate lambda: "if (m_config.autoDownload) downloadUpdate();".
\* downloadUpdate() runs on the worker thread itself here: m_workerThread is
\* joinable and is the calling thread, so m_workerThread.join() throws
\* std::system_error (resource_deadlock_would_occur), which the lambda's
\* catch (const std::exception&) turns into FAILED
workerCheckAutoDownload ==
    /\ ~exited /\ m_workerThread = [kind |-> "check", pc |-> "c_avail"]
    /\ lastOp' = workerOp("workerCheckAutoDownload")
    /\ UNCHANGED nonUpdVars
    /\ IF m_updateConfig.autoDownload /\ m_status = "AVAILABLE" /\ workerJoinable
       THEN workerSetFailed
       ELSE /\ m_workerThread' = [m_workerThread EXCEPT !.pc = "done"]
            /\ UNCHANGED <<m_status, m_failedTimestamp, failedSince>>
    /\ UNCHANGED <<m_heartbeatCount, m_updateInfo, m_cancelDownload,
                   m_updateConfig, updCaller, fileHash, installerRun, exited, now>>

\* downloadUpdate lambda: m_status = DOWNLOADING
workerDownloadStart ==
    /\ ~exited /\ m_workerThread = [kind |-> "download", pc |-> "d_start"]
    /\ m_status' = "DOWNLOADING"
    /\ m_workerThread' = [m_workerThread EXCEPT !.pc = "d_http"]
    /\ lastOp' = workerOp("workerDownloadStart")
    /\ UNCHANGED nonUpdVars
    /\ UNCHANGED <<m_heartbeatCount, m_failedTimestamp, failedSince, m_updateInfo,
                   m_cancelDownload, m_updateConfig, updCaller, fileHash,
                   installerRun, exited, now>>

\* downloadUpdate lambda: httpDownload, the cancel test and verifyChecksum.
\* success, the bytes received (by their digest) and whether the file can be
\* read back are the environment's choice
workerDownloadFinish ==
    /\ ~exited /\ m_workerThread = [kind |-> "download", pc |-> "d_http"]
    /\ UNCHANGED nonUpdVars
    /\ \E success \in BOOLEAN, digest \in ComputedDigests, opened \in BOOLEAN :
         /\ fileHash' = digest
         /\ lastOp' = [workerOp("workerDownloadFinish") EXCEPT
                          !.arg = IF ~success \/ m_cancelDownload
                                  THEN "notDownloaded"
                                  ELSE IF opened THEN "hashed" ELSE "notOpened"]
         /\ IF ~success \/ m_cancelDownload
            THEN workerSetFailed
            ELSE IF ~verifyChecksum(opened, digest, m_updateInfo.sha256)
            THEN workerSetFailed
            ELSE /\ m_status' = "DOWNLOADED"
                 /\ m_workerThread' = [m_workerThread EXCEPT !.pc = "d_downloaded"]
                 /\ UNCHANGED <<m_failedTimestamp, failedSince>>
    /\ UNCHANGED <<m_heartbeatCount, m_updateInfo, m_cancelDownload,
                   m_updateConfig, updCaller, installerRun, exited, now>>

\* downloadUpdate lambda: "if (m_config.autoInstall || m_updateInfo.isForced)
\* applyUpdate();" up to applyUpdate's test "if (m_status != DOWNLOADED)
\* return;".  m_status is a std::atomic and no mutex is held, so the load
\* of the test and the store that follows it are two steps
workerDownloadAutoInstall ==
    /\ ~exited /\ m_workerThread = [kind |-> "download", pc |-> "d_downloaded"]
    /\ lastOp' = workerOp("workerDownloadAutoInstall")
    /\ UNCHANGED nonUpdVars
    /\ IF (m_updateConfig.autoInstall \/ m_updateInfo.isForced)
          /\ m_status = "DOWNLOADED"
       THEN m_workerThread' = [m_workerThread EXCEPT !.pc = "w_apply"]
       ELSE m_workerThread' = [m_workerThread EXCEPT !.pc = "done"]
    /\ UNCHANGED <<m_status, m_heartbeatCount, m_failedTimestamp, failedSince,
                   m_updateInfo, m_cancelDownload, m_updateConfig, updCaller,
                   fileHash, installerRun, exited, now>>

\* applyUpdate on the worker thread after its test has passed:
\* m_status = INSTALLING, and the platform installer is entered
workerApplyUpdate ==
    /\ ~exited /\ m_workerThread = [kind |-> "download", pc |-> "w_apply"]
    /\ lastOp' = workerOp("workerApplyUpdate")
    /\ UNCHANGED nonUpdVars
    /\ m_status' = "INSTALLING"
    /\ installerRun' = [declared |-> m_updateInfo.sha256, computed |-> fileHash]
    /\ m_workerThread' = [m_workerThread EXCEPT !.pc = "w_installing"]
    /\ UNCHANGED <<m_heartbeatCount, m_failedTimestamp, failedSince, m_updateInfo,
                   m_cancelDownload, m_updateConfig, updCaller, fileHash,
                   exited, now>>

\* applyUpdate on the worker thread: the platform installer launches the
\* script and exits the process, or returns false and applyUpdate sets FAILED
workerInstallResult ==
    /\ ~exited /\ m_workerThread = [kind |-> "download", pc |-> "w_installing"]
    /\ lastOp' = workerOp("workerInstallResult")
    /\ UNCHANGED nonUpdVars
    /\ \E success \in BOOLEAN :
         IF success
         THEN /\ exited' = TRUE
              /\ UNCHANGED <<m_status, m_failedTimestamp, failedSince, m_workerThread>>
         ELSE /\ workerSetFailed
              /\ UNCHANGED exited
    /\ UNCHANGED <<m_heartbeatCount, m_updateInfo, m_cancelDownload,
                   m_updateConfig, updCaller, fileHash, installerRun, now>>

\* the worker thread after m_status = FAILED:
\* m_failedTimestamp = steady_clock::now(), and the lambda returns
workerFailedTimestamp ==
    /\ ~exited /\ m_workerThread.pc = "f_stamp"
    /\ m_failedTimestamp' = now
    /\ m_workerThread' = [m_workerThread EXCEPT !.pc = "done"]
    /\ lastOp' = workerOp("workerFailedTimestamp")
    /\ UNCHANGED nonUpdVars
    /\ UNCHANGED <<m_status, m_heartbeatCount, failedSince, m_updateInfo,
                   m_cancelDownload, m_updateConfig, updCaller, fileHash,
                   installerRun, exited, now>>

(***************************************************************************)
(* Shell session manager (shell_tools.cpp), POSIX PTY variant.             *)
(***************************************************************************)
\* commands a caller can pass to shell_exec and start_session
Commands == {"", "ls", "rm -rf /"}

\* security::CommandFilter::checkCommand(command).allowed is false: the
\* filter's blocklist, an opaque dependency of shell_tools.cpp
BlockedCommands == {"rm -rf /"}

\* the signal names stop_session distinguishes; any other name means TERM
SignalNames == {"TERM", "KILL", "INT", "HUP"}

\* the result of the last operation before any shell operation has run
NoResult == [success |-> FALSE, error |-> "none", session_id |-> 0]

\* bool CommandSecurity::isBlocked(const std::string& command)
isBlocked(command) == command \in BlockedCommands

\* bool CommandSecurity::detectsExfiltration(const std::string& command)
detectsExfiltration(command) == FALSE

\* generateSessionId(): "session_" and 16 random hex digits; the n-th id
\* drawn is modelled by n, i.e. the ids of one run are pairwise distinct
generateSessionId == sessionCount + 1

\* stopSession: the signal number chosen for a signal name
signalNumber(signal) ==
    CASE signal = "KILL" -> "SIGKILL"
      [] signal = "INT" -> "SIGINT"
      [] signal = "HUP" -> "SIGHUP"
      [] OTHER -> "SIGTERM"

ShellInit ==
    /\ g_sessions = << >>
    /\ sessionCount = 0
    /\ children = << >>
    /\ openFds = {}
    /\ spawnedCommands = {}
    /\ startedIds = {}
    /\ stoppedIds = {}
    /\ shellResult = NoResult

\* the op record of a shell step
shellOp(name, arg) == [op |-> name, arg |-> arg, was |-> m_status]

\* json ShellTools::exec(command, cwd, timeout): the child is forked, waited
\* for (or killed on timeout and waited for) and its pipes are closed inside
\* the call
exec(command) ==
    /\ lastOp' = shellOp("exec", command)
    /\ IF isBlocked(command)
       THEN /\ shellResult' = [success |-> FALSE, session_id |-> 0,
                               error |-> "Command blocked by security policy"]
            /\ UNCHANGED spawnedCommands
       ELSE IF detectsExfiltration(command)
       THEN /\ shellResult' = [success |-> FALSE, session_id |-> 0,
                               error |-> "Command blocked: potential data exfiltration"]
            /\ UNCHANGED spawnedCommands
       ELSE \E outcome \in {"pipe_failed", "fork_failed", "timed_out", "exited"} :
              CASE outcome = "pipe_failed" ->
                     /\ shellResult' = [success |-> FALSE, session_id |-> 0,
                                        error |-> "Failed to create pipes"]
                     /\ UNCHANGED spawnedCommands
                [] outcome = "fork_failed" ->
                     /\ shellResult' = [success |-> FALSE, session_id |-> 0,
                                        error |-> "Failed to fork"]
                     /\ UNCHANGED spawnedCommands
                [] outcome = "timed_out" ->
                     /\ shellResult' = [success |-> FALSE, session_id |-> 0,
                                        error |-> "Command timed out"]
                     /\ spawnedCommands' = spawnedCommands \cup {command}
                [] outcome = "exited" ->
                     /\ shellResult' = [success |-> TRUE, session_id |-> 0,
                                        error |-> ""]
                     /\ spawnedCommands' = spawnedCommands \cup {command}
    /\ UNCHANGED <<g_sessions, sessionCount, children, openFds, startedIds,
                   stoppedIds>>
    /\ UNCHANGED nonShellVars

\* json ShellTools::startSession(command, cwd): forkpty, then the record is
\* inserted under g_sessionMutex
startSession(command) ==
    /\ sessionCount < MaxSessions
    /\ lastOp' = shellOp("startSession", command)
    /\ \E forked \in BOOLEAN :
         IF ~forked
         THEN /\ shellResult' = [success |-> FALSE, session_id |-> 0,
                                 error |-> "Failed to create PTY"]
              /\ UNCHANGED <<g_sessions, sessionCount, children, openFds,
                             spawnedCommands, startedIds>>
         ELSE LET sessionId == generateSessionId IN
              /\ spawnedCommands' = spawnedCommands \cup {command}
              /\ sessionCount' = sessionCount + 1
              /\ children' = [p \in DOMAIN children \cup {sessionId} |->
                                IF p = sessionId THEN "running" ELSE children[p]]
              /\ openFds' = openFds \cup {sessionId}
              /\ g_sessions' = [i \in DOMAIN g_sessions \cup {sessionId} |->
                                  IF i = sessionId
                                  THEN [pid |-> sessionId, ptyMasterFd |-> sessionId]
                                  ELSE g_sessions[i]]
              /\ startedIds' = startedIds \cup {sessionId}
              /\ shellResult' = [success |-> TRUE, session_id |-> sessionId,
                                 error |-> ""]
    /\ UNCHANGED stoppedIds
    /\ UNCHANGED nonShellVars

\* a stop_session that forgets to erase the record
eraseSession_keepsRecord(sessionId) == g_sessions

\* stopSession's erase: g_sessions.erase(it)
eraseSession(sessionId) ==
    [i \in DOMAIN g_sessions \ {sessionId} |-> g_sessions[i]]

\* json ShellTools::stopSession(sessionId, signal): kill, waitpid(WNOHANG),
\* close, erase, all under g_sessionMutex.  Whether the child has died and
\* become reapable by the time of the waitpid is the scheduler's choice;
\* SIGKILL and a zombie cannot leave it running
stopSession(sessionId, signal) ==
    /\ lastOp' = shellOp("stopSession", sessionId)
    /\ IF sessionId \notin DOMAIN g_sessions
       THEN /\ shellResult' = [success |-> FALSE, session_id |-> sessionId,
                               error |-> "Session not found"]
            /\ UNCHANGED <<g_sessions, children, openFds, stoppedIds>>
       ELSE LET pid == g_sessions[sessionId].pid IN
            /\ \E after \in {"running", "zombie", "reaped"} :
                 /\ after = "running" =>
                      (children[pid] = "running" /\ signalNumber(signal) # "SIGKILL")
                 /\ children' = [children EXCEPT ![pid] = after]
            /\ openFds' = openFds \ {g_sessions[sessionId].ptyMasterFd}
            /\ g_sessions' = eraseSession(sessionId)
            /\ stoppedIds' = stoppedIds \cup {sessionId}
            /\ shellResult' = [success |-> TRUE, session_id |-> sessionId,
                               error |-> ""]
    /\ UNCHANGED <<sessionCount, spawnedCommands, startedIds>>
    /\ UNCHANGED nonShellVars

\* a lookup that still finds the ids of stopped sessions
findSession_findsStopped(sessionId) == sessionId \in startedIds

\* g_sessions.find(sessionId) != g_sessions.end()
findSession(sessionId) == sessionId \in DOMAIN g_sessions

\* json ShellTools::sendInput(sessionId, input): one write() to the PTY
\* master under g_sessionMutex.  The write fails or succeeds as the kernel
\* decides: the master is non-blocking, and a master whose child has exited
\* still takes bytes
sendInput(sessionId) ==
    /\ lastOp' = shellOp("sendInput", sessionId)
    /\ IF ~findSession(sessionId)
       THEN shellResult' = [success |-> FALSE, session_id |-> sessionId,
                            error |-> "Session not found"]
       ELSE \E written \in BOOLEAN :
              shellResult' =
                  IF written
                  THEN [success |-> TRUE, session_id |-> sessionId,
                        error |-> ""]
                  ELSE [success |-> FALSE, session_id |-> sessionId,
                        error |-> "Failed to write to session"]
    /\ UNCHANGED <<g_sessions, sessionCount, children, openFds,
                   spawnedCommands, startedIds, stoppedIds>>
    /\ UNCHANGED nonShellVars

\* json ShellTools::readOutput(sessionId): read() from the PTY master until
\* it returns 0 or -1, under g_sessionMutex; what was read is returned with
\* success = true, whatever ended the loop
readOutput(sessionId) ==
    /\ lastOp' = shellOp("readOutput", sessionId)
    /\ shellResult' =
           IF ~findSession(sessionId)
           THEN [success |-> FALSE, session_id |-> sessionId,
                 error |-> "Session not found"]
           ELSE [success |-> TRUE, session_id |-> sessionId, error |-> ""]
    /\ UNCHANGED <<g_sessions, sessionCount, children, openFds,
                   spawnedCommands, startedIds, stoppedIds>>
    /\ UNCHANGED nonShellVars

\* json ShellTools::listSessions(): the snapshot of the table's ids
listSessions ==
    /\ lastOp' = shellOp("listSessions", 0)
    /\ shellResult' = [success |-> TRUE, session_id |-> 0, error |-> "",
                       sessions |-> DOMAIN g_sessions]
    /\ UNCHANGED <<g_sessions, sessionCount, children, openFds,
                   spawnedCommands, startedIds, stoppedIds>>
    /\ UNCHANGED nonShellVars

\* the shell of a session exits by itself
childExits(pid) ==
    /\ pid \in DOMAIN children /\ children[pid] = "running"
    /\ children' = [children EXCEPT ![pid] = "zombie"]
    /\ lastOp' = shellOp("childExits", pid)
    /\ UNCHANGED <<g_sessions, sessionCount, openFds, spawnedCommands,
                   startedIds, stoppedIds, shellResult>>
    /\ UNCHANGED nonShellVars


(***************************************************************************)
(* Control-server protocol client (websocket_client.cpp).  connect(),       *)
(* disconnect() and reconnect() are called by the supervisor loop, the      *)
(* /control-server/* handlers and the signal handler; receiveLoop runs on   *)
(* m_receiveThread and the heartbeat lambda on m_heartbeatThread.           *)
(***************************************************************************)

\* correlation ids the server puts on request messages; "" is also what
\* j.value("id", "") yields for a request without an id
RequestIds == {"", "r1"}

\* what a successful read hands to the frame parser
MessageTypes == {"registered", "request", "close", "other"}

\* how m_commandCallback ends
HandlerOutcomes == {"returns", "throws"}

\* what m_connectionCallback was last called with
Notifications == {"none", "true", "false"}

\* a std::thread that is not joinable
NoThread == [pc |-> "none", req |-> <<>>]

Sockets == 1..MaxConnections

WsInit ==
    /\ m_connected = FALSE
    /\ m_running = FALSE
    /\ m_stopHeartbeat = FALSE
    /\ m_socket = 0
    /\ m_receiveThread = NoThread
    /\ m_heartbeatThread = NoThread
    /\ m_commandCallback = FALSE
    /\ wsCaller = [op |-> "none", pc |-> "idle"]
    /\ socketCount = 0
    /\ openSockets = {}
    /\ peerUp = {}
    /\ registeredOn = {}
    /\ received = {}
    /\ responses = [f \in Sockets \X RequestIds |-> 0]
    /\ terminated = FALSE
    /\ connectionNotified = "none"

wsOp(name, arg) == [op |-> name, arg |-> arg, was |-> m_status]

\* sslWrite returns > 0
sslWrite(sock) == sock \in openSockets /\ sock \in peerUp

\* sslDisconnect: close(m_socket) when m_socket >= 0
sslDisconnect(open) == open \ {m_socket}

wsIdle == wsCaller.pc = "idle" /\ ~terminated

\* what the caller of disconnect() does when it returns
afterDisconnect ==
    IF wsCaller.op = "disconnect"
    THEN [op |-> "none", pc |-> "idle"]
    ELSE [wsCaller EXCEPT !.pc = "connect"]

\* setCommandCallback, called by main before the first connect
setCommandCallback ==
    /\ wsIdle
    /\ ~m_commandCallback
    /\ m_commandCallback' = TRUE
    /\ lastOp' = wsOp("setCommandCallback", m_connected)
    /\ UNCHANGED <<m_connected, m_running, m_stopHeartbeat, m_socket,
                   m_receiveThread, m_heartbeatThread, wsCaller, socketCount,
                   openSockets, peerUp, registeredOn, received, responses,
                   terminated>>
    /\ UNCHANGED nonWsVars

\* POST /control-server/connect; main's first connect takes the same path
controlServerConnect ==
    /\ wsIdle
    /\ wsCaller' = [op |-> "controlServerConnect",
                    pc |-> IF m_connected THEN "disconnect" ELSE "connect"]
    /\ lastOp' = wsOp("controlServerConnect", m_connected)
    /\ UNCHANGED <<m_connected, m_running, m_stopHeartbeat, m_socket,
                   m_receiveThread, m_heartbeatThread, m_commandCallback,
                   socketCount, openSockets, peerUp, registeredOn, received,
                   responses, terminated>>
    /\ UNCHANGED nonWsVars

\* POST /control-server/disconnect and signalHandler
controlServerDisconnect ==
    /\ wsIdle
    /\ wsCaller' = [op |-> "disconnect", pc |-> "disconnect"]
    /\ lastOp' = wsOp("controlServerDisconnect", m_connected)
    /\ UNCHANGED <<m_connected, m_running, m_stopHeartbeat, m_socket,
                   m_receiveThread, m_heartbeatThread, m_commandCallback,
                   socketCount, openSockets, peerUp, registeredOn, received,
                   responses, terminated>>
    /\ UNCHANGED nonWsVars

\* POST /control-server/reconnect
reconnect ==
    /\ wsIdle
    /\ wsCaller' = [op |-> "reconnect", pc |-> "disconnect"]
    /\ lastOp' = wsOp("reconnect", m_connected)
    /\ UNCHANGED <<m_connected, m_running, m_stopHeartbeat, m_socket,
                   m_receiveThread, m_heartbeatThread, m_commandCallback,
                   socketCount, openSockets, peerUp, registeredOn, received,
                   responses, terminated>>
    /\ UNCHANGED nonWsVars

\* the supervisor loop: reconnect() once isConnected() is false
supervisorReconnect ==
    /\ wsIdle
    /\ ~m_connected
    /\ wsCaller' = [op |-> "reconnect", pc |-> "disconnect"]
    /\ lastOp' = wsOp("supervisorReconnect", m_connected)
    /\ UNCHANGED <<m_connected, m_running, m_stopHeartbeat, m_socket,
                   m_receiveThread, m_heartbeatThread, m_commandCallback,
                   socketCount, openSockets, peerUp, registeredOn, received,
                   responses, terminated>>
    /\ UNCHANGED nonWsVars

\* the guard missing: disconnect() always goes through its body
alreadyDisconnected_noGuard == FALSE

\* "if (!m_connected && m_socket < 0) return;"
alreadyDisconnected == ~m_connected /\ m_socket = 0

\* disconnect() up to stopHeartbeat()'s join
disconnect ==
    /\ wsCaller.pc = "disconnect"
    /\ ~terminated
    /\ IF alreadyDisconnected
       THEN /\ wsCaller' = afterDisconnect
            /\ UNCHANGED <<m_connected, m_running, m_stopHeartbeat>>
       ELSE /\ m_running' = FALSE
            /\ m_connected' = FALSE
            /\ m_stopHeartbeat' = TRUE
            /\ wsCaller' = [wsCaller EXCEPT !.pc = "joinHeartbeat"]
    /\ lastOp' = wsOp("disconnect", m_socket)
    /\ UNCHANGED <<m_socket, m_receiveThread, m_heartbeatThread,
                   m_commandCallback, socketCount, openSockets, peerUp,
                   registeredOn, received, responses, terminated>>
    /\ UNCHANGED nonWsVars

\* stopHeartbeat()'s m_heartbeatThread.join() returns
disconnectJoinHeartbeat ==
    /\ wsCaller.pc = "joinHeartbeat"
    /\ ~terminated
    /\ m_heartbeatThread.pc \in {"none", "finished"}
    /\ m_heartbeatThread' = NoThread
    /\ wsCaller' = [wsCaller EXCEPT !.pc = "joinReader"]
    /\ lastOp' = wsOp("disconnectJoinHeartbeat", m_socket)
    /\ UNCHANGED <<m_connected, m_running, m_stopHeartbeat, m_socket,
                   m_receiveThread, m_commandCallback, socketCount,
                   openSockets, peerUp, registeredOn, received, responses,
                   terminated>>
    /\ UNCHANGED nonWsVars

\* m_receiveThread.join() returns; sslDisconnect(); disconnect() returns
disconnectJoinReader ==
    /\ wsCaller.pc = "joinReader"
    /\ ~terminated
    /\ m_receiveThread.pc \in {"none", "finished"}
    /\ m_receiveThread' = NoThread
    /\ openSockets' = sslDisconnect(openSockets)
    /\ m_socket' = 0
    /\ wsCaller' = afterDisconnect
    /\ lastOp' = wsOp("disconnectJoinReader", m_socket)
    /\ UNCHANGED <<m_connected, m_running, m_stopHeartbeat,
                   m_heartbeatThread, m_commandCallback, socketCount, peerUp,
                   registeredOn, received, responses, terminated>>
    /\ connectionNotified' = "false"
    /\ UNCHANGED nonWsNotifyVars

\* what tcpConnect, sslConnect and websocketHandshake can come to
ConnectOutcomes == {"tcpFailed", "handshakeFailed", "connected"}

\* connect() up to m_running = true
connect ==
    /\ wsCaller.pc = "connect"
    /\ ~terminated
    /\ IF m_connected
       THEN /\ wsCaller' = [op |-> "none", pc |-> "idle"]
            /\ lastOp' = wsOp("connect", "alreadyConnected")
            /\ UNCHANGED <<m_connected, m_running, m_socket, socketCount,
                           openSockets, peerUp>>
       ELSE \E outcome \in ConnectOutcomes :
            /\ lastOp' = wsOp("connect", outcome)
            /\ IF outcome = "tcpFailed"
               THEN /\ wsCaller' = [op |-> "none", pc |-> "idle"]
                    /\ UNCHANGED <<m_connected, m_running, m_socket,
                                   socketCount, openSockets, peerUp>>
               ELSE /\ socketCount < MaxConnections
                    /\ socketCount' = socketCount + 1
                    /\ IF outcome = "handshakeFailed"
                       THEN \* m_socket = sock, then sslDisconnect()
                            /\ m_socket' = 0
                            /\ wsCaller' = [op |-> "none", pc |-> "idle"]
                            /\ UNCHANGED <<m_connected, m_running,
                                           openSockets, peerUp>>
                       ELSE /\ m_socket' = socketCount'
                            /\ openSockets' = openSockets \cup {socketCount'}
                            /\ peerUp' = peerUp \cup {socketCount'}
                            /\ m_connected' = TRUE
                            /\ m_running' = TRUE
                            /\ wsCaller' =
                                   [wsCaller EXCEPT !.pc = "spawnReader"]
    /\ UNCHANGED <<m_stopHeartbeat, m_receiveThread, m_heartbeatThread,
                   m_commandCallback, registeredOn, received, responses,
                   terminated>>
    /\ connectionNotified' = IF ~m_connected /\ m_connected'
                             THEN "true"
                             ELSE connectionNotified
    /\ UNCHANGED nonWsNotifyVars

\* sendRegistration(); m_receiveThread = std::thread(receiveLoop).
\* Assigning to a joinable std::thread calls std::terminate.
connectSpawnReader ==
    /\ wsCaller.pc = "spawnReader"
    /\ ~terminated
    /\ IF m_receiveThread.pc # "none"
       THEN /\ terminated' = TRUE
            /\ UNCHANGED m_receiveThread
       ELSE /\ m_receiveThread' = [pc |-> "loop", req |-> <<>>]
            /\ UNCHANGED terminated
    /\ wsCaller' = [op |-> "none", pc |-> "idle"]
    /\ lastOp' = wsOp("connectSpawnReader", m_socket)
    /\ UNCHANGED <<m_connected, m_running, m_stopHeartbeat, m_socket,
                   m_heartbeatThread, m_commandCallback, socketCount,
                   openSockets, peerUp, registeredOn, received, responses>>
    /\ UNCHANGED nonWsVars

\* the server goes away or the network path breaks
transportLoss(sock) ==
    /\ ~terminated
    /\ sock \in openSockets
    /\ sock \in peerUp
    /\ peerUp' = peerUp \ {sock}
    /\ lastOp' = wsOp("transportLoss", sock)
    /\ UNCHANGED <<m_connected, m_running, m_stopHeartbeat, m_socket,
                   m_receiveThread, m_heartbeatThread, m_commandCallback,
                   wsCaller, socketCount, openSockets, registeredOn,
                   received, responses, terminated>>
    /\ UNCHANGED nonWsVars

\* sendWebSocketFrame of a response frame carrying id: the frames written
sendWebSocketFrame(sock, id) ==
    IF sslWrite(sock)
    THEN [responses EXCEPT ![<<sock, id>>] = IF @ < 2 THEN @ + 1 ELSE @]
    ELSE responses

sendResponse(requestId) == sendWebSocketFrame(m_socket, requestId)

sendError_withoutId(requestId) == sendWebSocketFrame(m_socket, "")

sendError(requestId) == sendWebSocketFrame(m_socket, requestId)

\* receiveLoop: while (m_running && m_connected)
receiveLoopTest ==
    /\ m_receiveThread.pc = "loop"
    /\ ~terminated
    /\ m_receiveThread' =
           [m_receiveThread EXCEPT
               !.pc = IF m_running /\ m_connected THEN "read" ELSE "exit"]
    /\ lastOp' = wsOp("receiveLoopTest", m_socket)
    /\ UNCHANGED <<m_connected, m_running, m_stopHeartbeat, m_socket,
                   m_heartbeatThread, m_commandCallback, wsCaller,
                   socketCount, openSockets, peerUp, registeredOn, received,
                   responses, terminated>>
    /\ UNCHANGED nonWsVars

\* sslRead returns <= 0: break
receiveLoopReadFails ==
    /\ m_receiveThread.pc = "read"
    /\ ~terminated
    /\ ~(m_socket \in openSockets /\ m_socket \in peerUp)
    /\ m_receiveThread' = [m_receiveThread EXCEPT !.pc = "exit"]
    /\ lastOp' = wsOp("receiveLoopReadFails", m_socket)
    /\ UNCHANGED <<m_connected, m_running, m_stopHeartbeat, m_socket,
                   m_heartbeatThread, m_commandCallback, wsCaller,
                   socketCount, openSockets, peerUp, registeredOn, received,
                   responses, terminated>>
    /\ UNCHANGED nonWsVars

\* sslRead returns a frame: handleMessage up to the first blocking call
receiveLoopRead(type, id) ==
    /\ m_receiveThread.pc = "read"
    /\ ~terminated
    /\ m_socket \in openSockets
    /\ m_socket \in peerUp
    /\ type # "request" => id = ""
    /\ lastOp' = wsOp(type, <<m_socket, id>>)
    /\ CASE type = "registered" ->
              \* handleRegistered: startHeartbeat up to stopHeartbeat's join
              /\ registeredOn' = registeredOn \cup {m_socket}
              /\ m_stopHeartbeat' = TRUE
              /\ m_receiveThread' =
                     [m_receiveThread EXCEPT !.pc = "startHeartbeat"]
              /\ UNCHANGED <<received, responses>>
         [] type = "request" ->
              /\ <<m_socket, id>> \notin received
              /\ received' = received \cup {<<m_socket, id>>}
              /\ IF m_commandCallback
                 THEN /\ m_receiveThread' =
                             [pc |-> "handling", req |-> <<m_socket, id>>]
                      /\ UNCHANGED responses
                 ELSE /\ responses' = sendError(id)
                      /\ m_receiveThread' =
                             [m_receiveThread EXCEPT !.pc = "loop"]
              /\ UNCHANGED <<registeredOn, m_stopHeartbeat>>
         [] type = "close" ->
              /\ m_receiveThread' = [m_receiveThread EXCEPT !.pc = "exit"]
              /\ UNCHANGED <<registeredOn, m_stopHeartbeat, received,
                             responses>>
         [] type = "other" ->
              /\ m_receiveThread' = [m_receiveThread EXCEPT !.pc = "loop"]
              /\ UNCHANGED <<registeredOn, m_stopHeartbeat, received,
                             responses>>
    /\ UNCHANGED <<m_connected, m_running, m_socket, m_heartbeatThread,
                   m_commandCallback, wsCaller, socketCount, openSockets,
                   peerUp, terminated>>
    /\ UNCHANGED nonWsVars

\* handleRequest: m_commandCallback returns or throws
handleRequest(outcome) ==
    /\ m_receiveThread.pc = "handling"
    /\ ~terminated
    /\ responses' = IF outcome = "returns"
                    THEN sendResponse(m_receiveThread.req[2])
                    ELSE sendError(m_receiveThread.req[2])
    /\ m_receiveThread' = [pc |-> "loop", req |-> <<>>]
    /\ lastOp' = wsOp("handleRequest", outcome)
    /\ UNCHANGED <<m_connected, m_running, m_stopHeartbeat, m_socket,
                   m_heartbeatThread, m_commandCallback, wsCaller,
                   socketCount, openSockets, peerUp, registeredOn, received,
                   terminated>>
    /\ UNCHANGED nonWsVars

\* startHeartbeat after stopHeartbeat's join: spawn the heartbeat thread
startHeartbeat ==
    /\ m_receiveThread.pc = "startHeartbeat"
    /\ ~terminated
    /\ m_heartbeatThread.pc \in {"none", "finished"}
    /\ m_stopHeartbeat' = FALSE
    /\ m_heartbeatThread' = [pc |-> "test", req |-> <<>>]
    /\ m_receiveThread' = [m_receiveThread EXCEPT !.pc = "loop"]
    /\ lastOp' = wsOp("startHeartbeat", m_socket)
    /\ UNCHANGED <<m_connected, m_running, m_socket, m_commandCallback,
                   wsCaller, socketCount, openSockets, peerUp, registeredOn,
                   received, responses, terminated>>
    /\ UNCHANGED nonWsVars

\* receiveLoop after the loop: m_connected = false
receiveLoopExit ==
    /\ m_receiveThread.pc = "exit"
    /\ ~terminated
    /\ m_connected' = FALSE
    /\ m_receiveThread' = [m_receiveThread EXCEPT !.pc = "finished"]
    /\ lastOp' = wsOp("receiveLoopExit", m_socket)
    /\ UNCHANGED <<m_running, m_stopHeartbeat, m_socket, m_heartbeatThread,
                   m_commandCallback, wsCaller, socketCount, openSockets,
                   peerUp, registeredOn, received, responses, terminated>>
    /\ connectionNotified' = "false"
    /\ UNCHANGED nonWsNotifyVars

heartbeatCondition == m_running /\ m_connected /\ ~m_stopHeartbeat

\* the heartbeat lambda: while (m_running && m_connected && !m_stopHeartbeat)
heartbeatLoopTest ==
    /\ m_heartbeatThread.pc = "test"
    /\ ~terminated
    /\ m_heartbeatThread' =
           [m_heartbeatThread EXCEPT
               !.pc = IF heartbeatCondition THEN "sleep" ELSE "finished"]
    /\ lastOp' = wsOp("heartbeatLoopTest", m_socket)
    /\ UNCHANGED <<m_connected, m_running, m_stopHeartbeat, m_socket,
                   m_receiveThread, m_commandCallback, wsCaller, socketCount,
                   openSockets, peerUp, registeredOn, received, responses,
                   terminated>>
    /\ UNCHANGED nonWsVars

\* the heartbeat lambda after sleep_for: sendHeartbeat() if the condition
\* still holds
sendHeartbeat ==
    /\ m_heartbeatThread.pc = "sleep"
    /\ ~terminated
    /\ m_heartbeatThread' = [m_heartbeatThread EXCEPT !.pc = "test"]
    /\ lastOp' = IF heartbeatCondition /\ sslWrite(m_socket)
                 THEN wsOp("sendHeartbeat", m_socket)
                 ELSE wsOp("heartbeatSkipped", m_socket)
    /\ UNCHANGED <<m_connected, m_running, m_stopHeartbeat, m_socket,
                   m_receiveThread, m_commandCallback, wsCaller, socketCount,
                   openSockets, peerUp, registeredOn, received, responses,
                   terminated>>
    /\ UNCHANGED nonWsVars

(***************************************************************************)
(* Protocol client: relayed commands (relayCommand, handleRelayResponse).   *)
(***************************************************************************)

RelayInit ==
    /\ m_relayCallbacks = {}
    /\ relayCount = 0
    /\ relayInvoked = [id \in 1..MaxRelays |-> 0]

\* relayCommand: a fresh "relay_" id, store the callback, send the frame
relayCommand ==
    /\ ~terminated
    /\ relayCount < MaxRelays
    /\ relayCount' = relayCount + 1
    /\ m_relayCallbacks' = m_relayCallbacks \cup {relayCount'}
    /\ lastOp' = wsOp("relayCommand", relayCount')
    /\ UNCHANGED <<relayInvoked, wsVars>>
    /\ UNCHANGED nonClientVars

\* receiveLoop reads a relay_response message: handleRelayResponse.  If the
\* stored callback throws, erase is skipped and handleMessage catches.
handleRelayResponse(id, outcome) ==
    /\ m_receiveThread.pc = "read"
    /\ ~terminated
    /\ m_socket \in openSockets
    /\ m_socket \in peerUp
    /\ IF id \in m_relayCallbacks
       THEN /\ relayInvoked' =
                  [relayInvoked EXCEPT ![id] = IF @ < 2 THEN @ + 1 ELSE @]
            /\ m_relayCallbacks' = IF outcome = "returns"
                                   THEN m_relayCallbacks \ {id}
                                   ELSE m_relayCallbacks
       ELSE UNCHANGED <<m_relayCallbacks, relayInvoked>>
    /\ m_receiveThread' = [m_receiveThread EXCEPT !.pc = "loop"]
    /\ lastOp' = wsOp("handleRelayResponse", <<id, outcome>>)
    /\ UNCHANGED <<m_connected, m_running, m_stopHeartbeat, m_socket,
                   m_heartbeatThread, m_commandCallback, wsCaller,
                   socketCount, openSockets, peerUp, registeredOn, received,
                   responses, terminated, relayCount>>
    /\ UNCHANGED nonClientVars

(***************************************************************************)
(* Protocol client: the writers of the transport socket on an established   *)
(* connection.  The reader thread sends responses, application-level pongs  *)
(* and protocol-level pongs, the heartbeat thread sends heartbeats, callers *)
(* of connect() and relayCommand() send register and relay frames.  A write *)
(* of a frame reaches the socket in two halves.                             *)
(***************************************************************************)

Threads == {"reader", "heartbeat", "caller"}

\* the frames each thread sends
FrameKinds ==
    [reader |-> {"response", "pongMessage", "pong"},
     heartbeat |-> {"heartbeat"},
     caller |-> {"register", "relay"}]

NoFrame == [pc |-> "idle", kind |-> "none", id |-> 0]

SendInit ==
    /\ m_sendMutex = "none"
    /\ sender = [t \in Threads |-> NoFrame]
    /\ wire = <<>>
    /\ frameCount = 0

\* whether the code path sending this kind of frame takes m_sendMutex:
\* sendWebSocketFrame does, receiveLoop's pong calls sslWrite directly
takesSendMutex(kind) == kind # "pong"

\* the frame bytes are assembled (sendWebSocketFrame up to the lock_guard,
\* or receiveLoop's pongFrame)
buildFrame(t, kind) ==
    /\ sender[t].pc = "idle"
    /\ frameCount < MaxFrames
    /\ frameCount' = frameCount + 1
    /\ sender' = [sender EXCEPT ![t] =
                     [pc |-> "built", kind |-> kind, id |-> frameCount']]
    /\ lastOp' = wsOp("buildFrame", <<t, kind>>)
    /\ UNCHANGED <<m_sendMutex, wire>>
    /\ UNCHANGED nonSendVars

\* std::lock_guard<std::mutex> lock(m_sendMutex)
lockSendMutex(t) ==
    /\ sender[t].pc = "built"
    /\ takesSendMutex(sender[t].kind)
    /\ m_sendMutex = "none"
    /\ m_sendMutex' = t
    /\ sender' = [sender EXCEPT ![t].pc = "locked"]
    /\ lastOp' = wsOp("lockSendMutex", t)
    /\ UNCHANGED <<wire, frameCount>>
    /\ UNCHANGED nonSendVars

\* sslWrite: the first part of the frame reaches the socket
sslWriteBegin(t) ==
    /\ \/ sender[t].pc = "locked"
       \/ sender[t].pc = "built" /\ ~takesSendMutex(sender[t].kind)
    /\ wire' = Append(wire, <<sender[t].id, 1>>)
    /\ sender' = [sender EXCEPT ![t].pc = "writing"]
    /\ lastOp' = wsOp("sslWriteBegin", t)
    /\ UNCHANGED <<m_sendMutex, frameCount>>
    /\ UNCHANGED nonSendVars

\* sslWrite returns: the rest of the frame reached the socket; the
\* lock_guard, if any, is released
sslWriteEnd(t) ==
    /\ sender[t].pc = "writing"
    /\ wire' = Append(wire, <<sender[t].id, 2>>)
    /\ m_sendMutex' = IF m_sendMutex = t THEN "none" ELSE m_sendMutex
    /\ sender' = [sender EXCEPT ![t] = NoFrame]
    /\ lastOp' = wsOp("sslWriteEnd", t)
    /\ UNCHANGED frameCount
    /\ UNCHANGED nonSendVars

(***************************************************************************)
(* Protocol client: receiveLoop's frame parser.  The server sends complete  *)
(* text frames; a frame is a header unit followed by a payload unit, and    *)
(* each sslRead returns some prefix of what has arrived, at most the size   *)
(* of the buffer.                                                           *)
(***************************************************************************)

FramingInit ==
    /\ stream = <<>>
    /\ framesSent = 0
    /\ delivered = <<>>
    /\ readerStopped = FALSE

\* the units of text frame f
frameUnits(f) == <<<<f, "header">>, <<f, "payload">>>>

\* the server writes one complete text frame
serverSendsFrame ==
    /\ ~readerStopped
    /\ framesSent < MaxTextFrames
    /\ framesSent' = framesSent + 1
    /\ stream' = stream \o frameUnits(framesSent')
    /\ lastOp' = wsOp("serverSendsFrame", framesSent')
    /\ UNCHANGED <<delivered, readerStopped>>
    /\ UNCHANGED nonFramingVars

\* what receiveLoop does with the bytes of one read: "header", "payloadLen"
\* and the payload are taken from the start of the buffer.  A buffer that
\* starts inside a frame is parsed as if it started with a header
ParseOutcomes == {"ignored", "garbage", "close"}

\* one pass of receiveLoop: sslRead returns n units, the buffer is parsed
\* from its start, and whatever is not used is overwritten by the next read
receiveLoopParse(n, misparse) ==
    /\ ~readerStopped
    /\ n \in 1..Len(stream)
    /\ n <= BufferUnits
    /\ stream' = SubSeq(stream, n + 1, Len(stream))
    /\ lastOp' = wsOp("receiveLoopParse", n)
    /\ IF stream[1][2] = "header"
       THEN \* "if (bytesRead < headerLen + payloadLen) continue;"
            /\ misparse = "ignored"
            /\ delivered' = IF n >= Len(frameUnits(stream[1][1]))
                            THEN Append(delivered, stream[1][1])
                            ELSE delivered
            /\ UNCHANGED readerStopped
       ELSE \* payload bytes read as a header: an opcode the loop ignores or
            \* a length the read does not cover, a text frame of garbage
            \* (0 stands for it), or a close frame
            /\ delivered' = IF misparse = "garbage"
                            THEN Append(delivered, 0)
                            ELSE delivered
            /\ readerStopped' = (misparse = "close")
    /\ UNCHANGED framesSent
    /\ UNCHANGED nonFramingVars

(***************************************************************************)
(* Protocol client: the frames it builds.  A payload is its length and its  *)
(* bytes; the bytes repeat with period 4, so that payloads of 65536 bytes   *)
(* and more can be written down: byte i is pattern[(i % 4) + 1].            *)
(***************************************************************************)

\* payload lengths around the boundaries of the three length encodings
PayloadLengths == {0, 1, 3, 125, 126, 127, 65535, 65536, 70000}

\* ping payloads are at most 125 bytes long
PingLengths == {0, 1, 125}

PayloadPatterns == {<<0, 0, 0, 0>>, <<123, 34, 116, 125>>, <<255, 1, 128, 64>>}

\* the four random bytes of a masking key
MaskKeys == {<<0, 0, 0, 0>>, <<18, 52, 86, 120>>, <<255, 255, 255, 255>>}

EmptyPayload == [len |-> 0, pattern |-> <<0, 0, 0, 0>>]

NoWsFrame == [header |-> <<>>, mask |-> <<0, 0, 0, 0>>, body |-> EmptyPayload]

CodecInit ==
    /\ textPayload = EmptyPayload
    /\ textFrame = NoWsFrame
    /\ pingPayload = EmptyPayload
    /\ pongFrame = NoWsFrame

\* a ^ b on bytes
RECURSIVE xor(_, _)
xor(a, b) ==
    IF a = 0 THEN b
    ELSE IF b = 0 THEN a
    ELSE (((a % 2) + (b % 2)) % 2) + 2 * xor(a \div 2, b \div 2)

\* len >> (k * 8)
RECURSIVE shiftRightBytes(_, _)
shiftRightBytes(len, k) ==
    IF k = 0 THEN len ELSE shiftRightBytes(len \div 256, k - 1)

\* "payload[i] ^ mask[i % 4]" for every byte of the payload
maskPayload(payload, mask) ==
    [len |-> payload.len,
     pattern |-> [k \in 1..4 |-> xor(payload.pattern[k], mask[k])]]

\* a slip in the upper boundary of the 16-bit length
lengthBytes_wrongBoundary(len) ==
    IF len <= 125
    THEN <<128 + len>>
    ELSE IF len <= 65536
    THEN <<128 + 126, (len \div 256) % 256, len % 256>>
    ELSE <<128 + 127>> \o [i \in 1..8 |-> shiftRightBytes(len, 8 - i) % 256]

\* sendWebSocketFrame: the mask bit and the payload length
lengthBytes(len) ==
    IF len <= 125
    THEN <<128 + len>>
    ELSE IF len <= 65535
    THEN <<128 + 126, (len \div 256) % 256, len % 256>>
    ELSE <<128 + 127>> \o [i \in 1..8 |-> shiftRightBytes(len, 8 - i) % 256]

\* sendWebSocketFrame: the frame built for a payload with a masking key
webSocketFrame(payload, mask) ==
    [header |-> <<129>> \o lengthBytes(payload.len),
     mask |-> mask,
     body |-> maskPayload(payload, mask)]

\* a caller sends a text frame
sendTextFrame(len, pattern, mask) ==
    /\ textPayload' = [len |-> len, pattern |-> pattern]
    /\ textFrame' = webSocketFrame(textPayload', mask)
    /\ lastOp' = wsOp("sendTextFrame", len)
    /\ UNCHANGED <<pingPayload, pongFrame>>
    /\ UNCHANGED nonCodecVars

\* receiveLoop on opcode 0x09: 0x8A, 0x80 ("Mask bit + zero length") and
\* four random key bytes; the payload of the ping is not looked at
receivePing(len, pattern, mask) ==
    /\ pingPayload' = [len |-> len, pattern |-> pattern]
    /\ pongFrame' = [header |-> <<138, 128>>, mask |-> mask,
                     body |-> EmptyPayload]
    /\ lastOp' = wsOp("receivePing", len)
    /\ UNCHANGED <<textPayload, textFrame>>
    /\ UNCHANGED nonCodecVars

(***************************************************************************)
(* Protocol client: permissions latched from heartbeat_ack messages.       *)
(***************************************************************************)

Platforms == {"posix", "windows"}

\* a field of the permissions object: a JSON boolean, or not there
JsonBools == {"true", "false", "absent"}

PermissionObjects ==
    [masterMode : JsonBools, fileTransfer : JsonBools,
     localSettingsLocked : JsonBools]

NoPermissions ==
    [masterMode |-> "absent", fileTransfer |-> "absent",
     localSettingsLocked |-> "absent"]

\* the value of a numeric field that is not in the message
Absent == -1

\* the fields "u" and "updateFlag" of a heartbeat_ack
AckFlags == {Absent, 0, 1, 2}

\* heartbeat_ack messages, with and without a permissions object
HeartbeatAcks ==
    [hasPermissions : {TRUE}, permissions : PermissionObjects,
     u : AckFlags, updateFlag : AckFlags]
        \cup [hasPermissions : {FALSE}, permissions : {NoPermissions},
              u : AckFlags, updateFlag : AckFlags]

\* j.value("u", j.value("updateFlag", 0))
ackUpdateFlag(ack) ==
    IF ack.u # Absent THEN ack.u
    ELSE IF ack.updateFlag # Absent THEN ack.updateFlag
    ELSE 0

\* perms.value(key, false)
jsonValue(field) == field = "true"

\* the three booleans read from a permissions object
permissionBits(perms) ==
    [masterMode |-> jsonValue(perms.masterMode),
     fileTransfer |-> jsonValue(perms.fileTransfer),
     localSettingsLocked |-> jsonValue(perms.localSettingsLocked)]

PermInit ==
    /\ platform = "posix"
    /\ m_permissions = [masterMode |-> FALSE, fileTransfer |-> FALSE,
                        localSettingsLocked |-> FALSE]
    /\ m_permissionsCallback = FALSE
    /\ permissionsNotified = <<>>
    /\ m_heartbeatCallback = FALSE
    /\ heartbeatNotified = <<>>

\* the service is built from websocket_client_windows.cpp
buildForWindows ==
    /\ lastOp.op = "init"
    /\ platform' = "windows"
    /\ lastOp' = [op |-> "buildForWindows", arg |-> 0, was |-> 0]
    /\ UNCHANGED <<m_permissions, m_permissionsCallback, permissionsNotified,
                   m_heartbeatCallback, heartbeatNotified>>
    /\ UNCHANGED nonPermVars

setPermissionsCallback ==
    /\ ~m_permissionsCallback
    /\ m_permissionsCallback' = TRUE
    /\ lastOp' = [op |-> "setPermissionsCallback", arg |-> 0, was |-> 0]
    /\ UNCHANGED <<platform, m_permissions, permissionsNotified,
                   m_heartbeatCallback, heartbeatNotified>>
    /\ UNCHANGED nonPermVars

\* main: wsClient.setHeartbeatCallback(updateManager.onHeartbeat)
setHeartbeatCallback ==
    /\ ~m_heartbeatCallback
    /\ m_heartbeatCallback' = TRUE
    /\ lastOp' = [op |-> "setHeartbeatCallback", arg |-> 0, was |-> 0]
    /\ UNCHANGED <<platform, m_permissions, m_permissionsCallback,
                   permissionsNotified, heartbeatNotified>>
    /\ UNCHANGED nonPermVars

\* handleHeartbeatAck: the POSIX variant calls the heartbeat callback with
\* the update flag, compares the three booleans with the latched ones,
\* stores them and calls the permissions callback on a difference; the
\* Windows variant reads licenseStatus only
handleHeartbeatAck(ack) ==
    LET bits == permissionBits(ack.permissions)
        changed == /\ platform = "posix"
                   /\ ack.hasPermissions
                   /\ bits # m_permissions
    IN  /\ m_permissions' = IF changed THEN bits ELSE m_permissions
        /\ permissionsNotified' =
               IF changed /\ m_permissionsCallback THEN <<bits>> ELSE <<>>
        /\ heartbeatNotified' =
               IF platform = "posix" /\ m_heartbeatCallback
               THEN <<ackUpdateFlag(ack)>> ELSE <<>>
        /\ lastOp' = [op |-> "handleHeartbeatAck", arg |-> ack,
                      was |-> m_permissions]
        /\ UNCHANGED <<platform, m_permissionsCallback, m_heartbeatCallback>>
        /\ UNCHANGED nonPermVars

(***************************************************************************)
(* Command dispatcher (command_dispatcher.cpp) and the response that        *)
(* handleRequest builds from what it returns.  A params object is a record  *)
(* of the members the modelled methods read: "name" and "arguments" for     *)
(* tools/call ("" and <<>> when the member is not there) and "command".     *)
(***************************************************************************)

\* greatest nesting depth of the params objects the server sends
MaxNesting == 2

\* one method of the GUI set, one the service handles, the MCP wrapper and
\* a name no branch of dispatch knows
Methods == {"screenshot", "wait", "shell_exec", "tools/call", "frobnicate"}

\* CommandDispatcher::GUI_METHODS, as far as Methods has them
GUI_METHODS == {"screenshot", "wait"}

\* a "command" member that is a JSON number: value("command", "") throws
NotAString == "#number"

CommandParams == {"ls", "rm -rf /", NotAString}

\* json::object()
EmptyObject == [name |-> "", arguments |-> <<>>, command |-> ""]

\* params objects whose "arguments" nest at most d deep; only tools/call
\* reads "arguments", so deeper nests are nests of tools/call
RECURSIVE ParamsOfDepth(_)
ParamsOfDepth(d) ==
    IF d = 0
    THEN {[name |-> "", arguments |-> <<>>, command |-> c] :
            c \in CommandParams}
    ELSE LET inner == ParamsOfDepth(d - 1)
             names == IF d = 1 THEN Methods ELSE {"tools/call"}
         IN  inner
             \cup {[name |-> m, arguments |-> <<p>>, command |-> ""] :
                     m \in names, p \in inner}
             \cup {[name |-> m, arguments |-> <<>>, command |-> ""] :
                     m \in Methods}

\* what dispatch returned before any request was handled
NoReturn ==
    [result |-> [success |-> "absent", error |-> "", echo |-> ""],
     calls |-> <<>>]

NoResponse ==
    [id |-> "", hasResult |-> FALSE, result |-> NoReturn.result,
     hasError |-> FALSE, error |-> ""]

DispatchInit ==
    /\ m_guiProxy = FALSE
    /\ guiListening = FALSE
    /\ dispatchCall = [method |-> "", params |-> EmptyObject]
    /\ dispatchReturn = NoReturn
    /\ responseFrame = NoResponse

\* json CommandDispatcher::errorResponse(message): {"error": message}, and
\* no tool was called
errorResponse(message) ==
    [result |-> [success |-> "absent", error |-> message, echo |-> ""],
     calls |-> <<>>]

\* main's GUI proxy: POST /tool to the loopback GUI port
guiProxy(method, params) ==
    IF guiListening
    THEN [result |-> [success |-> "true", error |-> "",
                      echo |-> params.command],
          calls |-> <<[tool |-> method, command |-> params.command]>>]
    ELSE errorResponse("Tray app unavailable")

\* handleShellTool("exec", params): value("command", "") throws on a
\* member that is not a string, and dispatch's catch turns the exception
\* into errorResponse(e.what()); ShellTools::exec refuses a blocked command
handleShellTool(params) ==
    IF params.command = NotAString
    THEN errorResponse("type must be string, but is number")
    ELSE IF isBlocked(params.command)
    THEN [result |-> [success |-> "false", echo |-> "",
                      error |-> "Command blocked by security policy"],
          calls |-> <<>>]
    ELSE [result |-> [success |-> "true", error |-> "",
                      echo |-> params.command],
          calls |-> <<[tool |-> "exec", command |-> params.command]>>]

\* the branch method == "wait" of dispatch: sleep_for(milliseconds) and
\* {"success": true, "waited_ms": ms}; no tool is called
waitLocally ==
    [result |-> [success |-> "true", error |-> "", echo |-> "waited_ms"],
     calls |-> <<>>]

\* a tools/call that hands its own params on instead of "arguments"
toolArguments_passesParams(params) == params

\* params.value("arguments", json::object())
toolArguments(params) ==
    IF params.arguments = <<>> THEN EmptyObject ELSE params.arguments[1]

\* json CommandDispatcher::dispatch(method, params)
RECURSIVE dispatch(_, _)
dispatch(method, params) ==
    IF method \in GUI_METHODS
    THEN IF m_guiProxy
         THEN guiProxy(method, params)
         ELSE errorResponse("GUI operations unavailable - tray app not connected")
    ELSE IF method = "shell_exec"
    THEN handleShellTool(params)
    ELSE IF method = "wait"
    THEN waitLocally
    ELSE IF method = "tools/call"
    THEN IF params.name = ""
         THEN errorResponse("Missing 'name' in tools/call params")
         ELSE dispatch(params.name, toolArguments(params))
    ELSE errorResponse("Unknown method")

\* main: dispatcher.setGuiProxy(...)
setGuiProxy ==
    /\ ~m_guiProxy
    /\ m_guiProxy' = TRUE
    /\ lastOp' = [op |-> "setGuiProxy", arg |-> 0, was |-> 0]
    /\ UNCHANGED <<guiListening, dispatchCall, dispatchReturn, responseFrame>>
    /\ UNCHANGED nonDispatchVars

\* the GUI helper of the logged-in user starts or stops listening
guiHelper(listening) ==
    /\ guiListening # listening
    /\ guiListening' = listening
    /\ lastOp' = [op |-> "guiHelper", arg |-> listening, was |-> 0]
    /\ UNCHANGED <<m_guiProxy, dispatchCall, dispatchReturn, responseFrame>>
    /\ UNCHANGED nonDispatchVars

\* main: wsClient.setCommandCallback(dispatcher.dispatch)
registerDispatcher ==
    /\ ~m_commandCallback
    /\ m_commandCallback' = TRUE
    /\ lastOp' = [op |-> "registerDispatcher", arg |-> 0, was |-> 0]
    /\ UNCHANGED <<m_connected, m_running, m_stopHeartbeat, m_socket,
                   m_receiveThread, m_heartbeatThread, wsCaller, socketCount,
                   openSockets, peerUp, registeredOn, received, responses,
                   terminated>>
    /\ UNCHANGED nonWsVars

\* handleRequest with the dispatcher as command callback: sendResponse puts
\* what the callback returned under "result"; sendError puts e.what() (or
\* "No command handler registered") under "error"
handleRequestDispatch(id, method, params) ==
    /\ dispatchCall' = [method |-> method, params |-> params]
    /\ IF m_commandCallback
       THEN /\ dispatchReturn' = dispatch(method, params)
            /\ responseFrame' =
                   [id |-> id, hasResult |-> TRUE,
                    result |-> dispatchReturn'.result,
                    hasError |-> FALSE, error |-> ""]
       ELSE /\ dispatchReturn' = NoReturn
            /\ responseFrame' =
                   [id |-> id, hasResult |-> FALSE, result |-> NoReturn.result,
                    hasError |-> TRUE,
                    error |-> "No command handler registered"]
    /\ lastOp' = [op |-> "handleRequestDispatch", arg |-> id, was |-> 0]
    /\ UNCHANGED <<m_guiProxy, guiListening>>
    /\ UNCHANGED nonDispatchVars

(***************************************************************************)
(* Protocol client: a second caller.  The /control-server/* handlers run   *)
(* on the HTTP server's worker threads and the supervisor loop on the main *)
(* thread; nothing keeps one of them out of connect() while another is     *)
(* inside disconnect().                                                    *)
(***************************************************************************)

CallerInit == httpCaller = "idle"

\* POST /control-server/connect on another worker thread while a caller is
\* inside a call: isConnected() is false, so connect() runs up to
\* m_running = true
httpConnect(outcome) ==
    /\ httpCaller = "idle"
    /\ wsCaller.pc # "idle"
    /\ ~terminated
    /\ ~m_connected
    /\ lastOp' = wsOp("httpConnect", outcome)
    /\ IF outcome = "tcpFailed"
       THEN UNCHANGED <<m_connected, m_running, m_socket, socketCount,
                        openSockets, peerUp, httpCaller>>
       ELSE /\ socketCount < MaxConnections
            /\ socketCount' = socketCount + 1
            /\ IF outcome = "handshakeFailed"
               THEN /\ m_socket' = 0
                    /\ UNCHANGED <<m_connected, m_running, openSockets,
                                   peerUp, httpCaller>>
               ELSE /\ m_socket' = socketCount'
                    /\ openSockets' = openSockets \cup {socketCount'}
                    /\ peerUp' = peerUp \cup {socketCount'}
                    /\ m_connected' = TRUE
                    /\ m_running' = TRUE
                    /\ httpCaller' = "spawnReader"
    /\ connectionNotified' = IF m_connected' THEN "true"
                             ELSE connectionNotified
    /\ UNCHANGED <<m_stopHeartbeat, m_receiveThread, m_heartbeatThread,
                   m_commandCallback, wsCaller, registeredOn, received,
                   responses, terminated>>
    /\ UNCHANGED nonReplyVars

\* the second caller's m_receiveThread = std::thread(receiveLoop)
httpConnectSpawnReader ==
    /\ httpCaller = "spawnReader"
    /\ ~terminated
    /\ IF m_receiveThread.pc # "none"
       THEN /\ terminated' = TRUE
            /\ UNCHANGED m_receiveThread
       ELSE /\ m_receiveThread' = [pc |-> "loop", req |-> <<>>]
            /\ UNCHANGED terminated
    /\ httpCaller' = "idle"
    /\ lastOp' = wsOp("httpConnectSpawnReader", m_socket)
    /\ UNCHANGED <<m_connected, m_running, m_stopHeartbeat, m_socket,
                   m_heartbeatThread, m_commandCallback, wsCaller,
                   socketCount, openSockets, peerUp, registeredOn, received,
                   responses>>
    /\ UNCHANGED <<notifyVars, nonReplyVars>>

(***************************************************************************)
(* Supervisor loop of main (main_linux.cpp, main_windows.cpp), with a       *)
(* control server configured and connectOnStartup set.  int is 32 bits      *)
(* wide; a 32-bit value is kept as two 16-bit halves where it can pass      *)
(* 2^31.                                                                    *)
(***************************************************************************)

\* consecutive failed reconnects followed
MaxAttempts == 30

\* const int maxReconnectDelay = 60
maxReconnectDelay == 60

SupervisorInit ==
    /\ reconnectAttempts = 0
    /\ reconnectDelay = 0
    /\ supervisorPc = "check"
    /\ isConnected = FALSE

\* 2^k for 0 <= k < 16
RECURSIVE pow2(_)
pow2(k) == IF k = 0 THEN 1 ELSE 2 * pow2(k - 1)

\* 1 << k as <<high half, low half>>, 0 <= k < 32
shiftLeftOne(k) == IF k < 16 THEN <<0, pow2(k)>> ELSE <<pow2(k - 16), 0>>

\* 5 * x in the full integers, as <<what is above 32 bits, high, low>>
timesFive(x) ==
    LET low == 5 * x[2]
        high == 5 * x[1] + (low \div 65536)
    IN  <<high \div 65536, high % 65536, low % 65536>>

\* the int a 32-bit pattern stands for
asInt(high, low) ==
    IF high >= 32768 THEN (high - 65536) * 65536 + low
    ELSE high * 65536 + low

\* 5 * (1 << k) does not fit an int: signed overflow
overflows(k) ==
    LET p == timesFive(shiftLeftOne(k)) IN p[1] > 0 \/ p[2] >= 32768

\* std::min(a, b)
min(a, b) == IF b < a THEN b ELSE a

\* std::min(5 * (1 << reconnectAttempts), maxReconnectDelay).  Where the
\* product overflows the behaviour is undefined: the build may wrap the
\* product or work as if it had not overflowed
backoffDelays(k) ==
    LET p == timesFive(shiftLeftOne(k))
    IN  IF overflows(k)
        THEN {min(asInt(p[2], p[3]), maxReconnectDelay), maxReconnectDelay}
        ELSE {min(asInt(p[2], p[3]), maxReconnectDelay)}

\* the main loop finds the client connected, or not connected: it computes
\* the delay, counts the attempt and sleeps
supervisorCheck ==
    /\ supervisorPc = "check"
    /\ lastOp' = [op |-> "supervisorCheck", arg |-> reconnectAttempts,
                  was |-> isConnected]
    /\ IF isConnected
       THEN /\ reconnectAttempts' = 0
            /\ UNCHANGED <<reconnectDelay, supervisorPc>>
       ELSE /\ reconnectAttempts < MaxAttempts
            /\ reconnectDelay' \in backoffDelays(reconnectAttempts)
            /\ reconnectAttempts' = reconnectAttempts + 1
            /\ supervisorPc' = "reconnect"
    /\ UNCHANGED isConnected
    /\ UNCHANGED nonSupervisorVars

\* wsClient.reconnect() returns
supervisorAttempt(success) ==
    /\ supervisorPc = "reconnect"
    /\ lastOp' = [op |-> "supervisorAttempt", arg |-> success,
                  was |-> reconnectAttempts]
    /\ reconnectAttempts' = IF success THEN 0 ELSE reconnectAttempts
    /\ isConnected' = success
    /\ supervisorPc' = "check"
    /\ UNCHANGED reconnectDelay
    /\ UNCHANGED nonSupervisorVars

\* the connection to the control server is lost
connectionLost ==
    /\ isConnected
    /\ isConnected' = FALSE
    /\ lastOp' = [op |-> "connectionLost", arg |-> 0, was |-> 0]
    /\ UNCHANGED <<reconnectAttempts, reconnectDelay, supervisorPc>>
    /\ UNCHANGED nonSupervisorVars

(***************************************************************************)
(* ConnectionConfig::save and ConnectionConfig::load (websocket_client.cpp) *)
(* on connection.json.  The document reaches the file in DocChunks writes.  *)
(***************************************************************************)

\* number of writes the stream needs for one document
DocChunks == 2

\* configurations a caller saves
Configs == {"A", "B", "C"}

\* no file at the path
NoFile == [doc |-> "none", chunks |-> 0]

ConfigInit ==
    /\ configFile = NoFile
    /\ savePc = "idle"
    /\ saving = "none"
    /\ committed = "none"
    /\ loaded = "nothing"

\* what a reader of the file finds
fileState(file) ==
    IF file.doc = "none" THEN "missing"
    ELSE IF file.chunks = 0 THEN "empty"
    ELSE IF file.chunks < DocChunks THEN "partial"
    ELSE "complete"

\* save: std::ofstream file(path) opens the target path itself and
\* truncates it
saveOpen(config) ==
    /\ savePc = "idle"
    /\ saving' = config
    /\ configFile' = [doc |-> config, chunks |-> 0]
    /\ savePc' = "open"
    /\ lastOp' = [op |-> "saveOpen", arg |-> config, was |-> committed]
    /\ UNCHANGED <<committed, loaded>>
    /\ UNCHANGED nonConfigVars

\* save: file << j.dump(2), one write of the stream's buffer
saveWrite ==
    /\ savePc = "open"
    /\ configFile.chunks < DocChunks
    /\ configFile' = [configFile EXCEPT !.chunks = @ + 1]
    /\ lastOp' = [op |-> "saveWrite", arg |-> saving, was |-> committed]
    /\ UNCHANGED <<savePc, saving, committed, loaded>>
    /\ UNCHANGED nonConfigVars

\* save: everything is written, the stream is closed, return true
saveReturn ==
    /\ savePc = "open"
    /\ configFile.chunks = DocChunks
    /\ committed' = saving
    /\ savePc' = "idle"
    /\ saving' = "none"
    /\ lastOp' = [op |-> "saveReturn", arg |-> saving, was |-> committed]
    /\ UNCHANGED <<configFile, loaded>>
    /\ UNCHANGED nonConfigVars

\* the process dies inside save and is started again
crashInSave ==
    /\ savePc = "open"
    /\ savePc' = "idle"
    /\ saving' = "none"
    /\ lastOp' = [op |-> "crashInSave", arg |-> saving, was |-> committed]
    /\ UNCHANGED <<configFile, committed, loaded>>
    /\ UNCHANGED nonConfigVars

\* ConnectionConfig::load, at any time: it reads what the file holds
load ==
    /\ loaded' = fileState(configFile)
    /\ lastOp' = [op |-> "load", arg |-> saving, was |-> committed]
    /\ UNCHANGED <<configFile, savePc, saving, committed>>
    /\ UNCHANGED nonConfigVars

(***************************************************************************)
(* Shell session manager under concurrent callers: every tool call runs on *)
(* the thread that received it (HTTP workers, the WebSocket reader), and   *)
(* g_sessionMutex is the only synchronisation in shell_tools.cpp.          *)
(***************************************************************************)
\* the threads that call into ShellTools at the same time
ShellCallers == {1, 2}

\* the session operations that take a session id
SessionCalls == {"sendInput", "readOutput", "stopSession"}

\* the descriptor numbers the process hands out to sessions
SessionFds == 1..MaxSessions

\* a caller that is not inside ShellTools
IdleCaller == [pc |-> "idle", op |-> "none", sid |-> 0, fd |-> 0]

\* no system call on a session has been made yet
NoSyscall == [call |-> "none", thread |-> 0, sid |-> 0, fd |-> 0,
              valid |-> TRUE, locked |-> FALSE]

LockInit ==
    /\ g_sessionMutex = 0
    /\ sessionTable = [sid \in 1..MaxSessions |-> 0]
    /\ fdOwner = [fd \in SessionFds |-> 0]
    /\ idsDrawn = 0
    /\ shellThread = [t \in ShellCallers |-> IdleCaller]
    /\ lastSyscall = NoSyscall

\* the lowest descriptor number that is not open, as open()/forkpty() pick it
lowestFreeFd == CHOOSE fd \in SessionFds :
                   /\ fdOwner[fd] = 0
                   /\ \A g \in SessionFds : fdOwner[g] = 0 => fd <= g

\* std::lock_guard<std::mutex> lock(g_sessionMutex) can proceed
mutexFree_notExclusive == TRUE

\* std::lock_guard<std::mutex> lock(g_sessionMutex) can proceed
mutexFree == g_sessionMutex = 0

\* the system call an operation makes on the session's descriptor
sessionSyscall(op) ==
    CASE op = "sendInput" -> "write"
      [] op = "readOutput" -> "read"
      [] op = "stopSession" -> "close"

\* startSession on thread t up to the insertion: forkpty(&masterFd, ...),
\* setNonBlocking(masterFd), generateSessionId(); the mutex is not held
forkSession(t) ==
    /\ shellThread[t].pc = "idle"
    /\ idsDrawn < MaxSessions
    /\ \E fd \in SessionFds : fdOwner[fd] = 0
    /\ idsDrawn' = idsDrawn + 1
    /\ fdOwner' = [fdOwner EXCEPT ![lowestFreeFd] = idsDrawn + 1]
    /\ shellThread' = [shellThread EXCEPT ![t] =
                          [pc |-> "insert", op |-> "startSession",
                           sid |-> idsDrawn + 1, fd |-> lowestFreeFd]]
    /\ lastOp' = [op |-> "forkSession", arg |-> t, was |-> g_sessionMutex]
    /\ UNCHANGED <<g_sessionMutex, sessionTable, lastSyscall>>
    /\ UNCHANGED nonLockVars

\* startSession on thread t: { lock_guard lock(g_sessionMutex);
\* g_sessions[sessionId] = {...}; } and the return
insertSession(t) ==
    /\ shellThread[t].pc = "insert"
    /\ mutexFree
    /\ sessionTable' = [sessionTable EXCEPT ![shellThread[t].sid] = shellThread[t].fd]
    /\ shellThread' = [shellThread EXCEPT ![t] = IdleCaller]
    /\ lastOp' = [op |-> "insertSession", arg |-> t, was |-> g_sessionMutex]
    /\ UNCHANGED <<g_sessionMutex, fdOwner, idsDrawn, lastSyscall>>
    /\ UNCHANGED nonLockVars

\* thread t enters sendInput, readOutput or stopSession with an id some
\* startSession has returned
callSession(t, op, sid) ==
    /\ shellThread[t].pc = "idle"
    /\ sid \in 1..idsDrawn
    /\ shellThread' = [shellThread EXCEPT ![t] =
                          [pc |-> "lock", op |-> op, sid |-> sid, fd |-> 0]]
    /\ lastOp' = [op |-> "callSession", arg |-> t, was |-> g_sessionMutex]
    /\ UNCHANGED <<g_sessionMutex, sessionTable, fdOwner, idsDrawn, lastSyscall>>
    /\ UNCHANGED nonLockVars

\* std::lock_guard<std::mutex> lock(g_sessionMutex); auto it =
\* g_sessions.find(sessionId); "Session not found" when it is absent
lockSessionMutex(t) ==
    /\ shellThread[t].pc = "lock"
    /\ mutexFree
    /\ g_sessionMutex' = t
    /\ shellThread' = [shellThread EXCEPT ![t] =
          IF sessionTable[shellThread[t].sid] = 0
          THEN [@ EXCEPT !.pc = "unlock"]
          ELSE [@ EXCEPT !.pc = "io", !.fd = sessionTable[shellThread[t].sid]]]
    /\ lastOp' = [op |-> "lockSessionMutex", arg |-> t, was |-> g_sessionMutex]
    /\ UNCHANGED <<sessionTable, fdOwner, idsDrawn, lastSyscall>>
    /\ UNCHANGED nonLockVars

\* the body after the lookup: write(fd, ...) in sendInput, the read(fd, ...)
\* loop in readOutput, kill / waitpid / close(fd) and g_sessions.erase(it) in
\* stopSession.  A call on a descriptor is valid while the descriptor is
\* open for this session
sessionSyscalls(t) ==
    /\ shellThread[t].pc = "io"
    /\ lastSyscall' = [call |-> sessionSyscall(shellThread[t].op),
                       thread |-> t,
                       sid |-> shellThread[t].sid,
                       fd |-> shellThread[t].fd,
                       valid |-> fdOwner[shellThread[t].fd] = shellThread[t].sid,
                       locked |-> g_sessionMutex = t]
    /\ IF shellThread[t].op = "stopSession"
       THEN /\ fdOwner' = [fdOwner EXCEPT ![shellThread[t].fd] = 0]
            /\ sessionTable' = [sessionTable EXCEPT ![shellThread[t].sid] = 0]
       ELSE UNCHANGED <<fdOwner, sessionTable>>
    /\ shellThread' = [shellThread EXCEPT ![t].pc = "unlock"]
    /\ lastOp' = [op |-> "sessionSyscalls", arg |-> t, was |-> g_sessionMutex]
    /\ UNCHANGED <<g_sessionMutex, idsDrawn>>
    /\ UNCHANGED nonLockVars

\* the return: the lock_guard's destructor releases g_sessionMutex
unlockSessionMutex(t) ==
    /\ shellThread[t].pc = "unlock"
    /\ g_sessionMutex' = IF g_sessionMutex = t THEN 0 ELSE g_sessionMutex
    /\ shellThread' = [shellThread EXCEPT ![t] = IdleCaller]
    /\ lastOp' = [op |-> "unlockSessionMutex", arg |-> t, was |-> g_sessionMutex]
    /\ UNCHANGED <<sessionTable, fdOwner, idsDrawn, lastSyscall>>
    /\ UNCHANGED nonLockVars

(***************************************************************************)
(* The permission bits as the three std::atomic<bool> members they are:    *)
(* handleHeartbeatAck on the reader thread stores them one after another,  *)
(* and GET /control-server/status on an HTTP worker loads them one after   *)
(* another; nothing else orders the two threads.                           *)
(***************************************************************************)
\* the three bits as one value
permissionTriple(mm, ft, lsl) ==
    [masterMode |-> mm, fileTransfer |-> ft, localSettingsLocked |-> lsl]

\* the triple held by the three atomics now
latchedNow ==
    permissionTriple(m_masterModeEnabled, m_fileTransferEnabled, m_localSettingsLocked)

LatchInit ==
    /\ m_masterModeEnabled = FALSE
    /\ m_fileTransferEnabled = FALSE
    /\ m_localSettingsLocked = FALSE
    /\ ackPc = "idle"
    /\ ackBits = permissionTriple(FALSE, FALSE, FALSE)
    /\ ackBefore = permissionTriple(FALSE, FALSE, FALSE)
    /\ statusPc = "idle"
    /\ statusResponse = permissionTriple(FALSE, FALSE, FALSE)
    /\ statusWindow = {}

\* handleHeartbeatAck, "if (j.contains("permissions"))": the three values are
\* read and compared with the three atomics; on a difference the stores follow
comparePermissions(perms) ==
    LET bits == permissionBits(perms)
    IN  /\ ackPc = "idle"
        /\ IF bits # latchedNow
           THEN /\ ackPc' = "store_masterMode"
                /\ ackBits' = bits
                /\ ackBefore' = latchedNow
                /\ statusWindow' = IF statusPc \in {"idle", "done"}
                                   THEN statusWindow
                                   ELSE statusWindow \cup {bits}
           ELSE UNCHANGED <<ackPc, ackBits, ackBefore, statusWindow>>
        /\ lastOp' = [op |-> "comparePermissions", arg |-> bits, was |-> latchedNow]
        /\ UNCHANGED <<m_masterModeEnabled, m_fileTransferEnabled,
                       m_localSettingsLocked, statusPc, statusResponse>>
        /\ UNCHANGED nonLatchVars

\* m_masterModeEnabled = masterMode;
storeMasterMode ==
    /\ ackPc = "store_masterMode"
    /\ m_masterModeEnabled' = ackBits.masterMode
    /\ ackPc' = "store_fileTransfer"
    /\ lastOp' = [op |-> "storeMasterMode", arg |-> ackBits, was |-> latchedNow]
    /\ UNCHANGED <<m_fileTransferEnabled, m_localSettingsLocked, ackBits, ackBefore,
                   statusPc, statusResponse, statusWindow>>
    /\ UNCHANGED nonLatchVars

\* m_fileTransferEnabled = fileTransfer;
storeFileTransfer ==
    /\ ackPc = "store_fileTransfer"
    /\ m_fileTransferEnabled' = ackBits.fileTransfer
    /\ ackPc' = "store_localSettingsLocked"
    /\ lastOp' = [op |-> "storeFileTransfer", arg |-> ackBits, was |-> latchedNow]
    /\ UNCHANGED <<m_masterModeEnabled, m_localSettingsLocked, ackBits, ackBefore,
                   statusPc, statusResponse, statusWindow>>
    /\ UNCHANGED nonLatchVars

\* m_localSettingsLocked = localSettingsLocked; and the rest of the handler
storeLocalSettingsLocked ==
    /\ ackPc = "store_localSettingsLocked"
    /\ m_localSettingsLocked' = ackBits.localSettingsLocked
    /\ ackPc' = "idle"
    /\ lastOp' = [op |-> "storeLocalSettingsLocked", arg |-> ackBits, was |-> latchedNow]
    /\ UNCHANGED <<m_masterModeEnabled, m_fileTransferEnabled, ackBits, ackBefore,
                   statusPc, statusResponse, statusWindow>>
    /\ UNCHANGED nonLatchVars

\* GET /control-server/status: {"masterMode", wsClient.getMasterModeEnabled()},
\* the first load of the handler.  The triples a reader may see whole are the
\* one latched when the handler begins and, when an ack is being latched, the
\* one before that ack and the one after it
getMasterModeEnabled ==
    /\ statusPc = "idle"
    /\ statusResponse' = permissionTriple(m_masterModeEnabled, FALSE, FALSE)
    /\ statusWindow' = IF ackPc = "idle"
                       THEN {latchedNow}
                       ELSE {ackBefore, ackBits}
    /\ statusPc' = "fileTransfer"
    /\ lastOp' = [op |-> "getMasterModeEnabled", arg |-> ackBits, was |-> latchedNow]
    /\ UNCHANGED <<m_masterModeEnabled, m_fileTransferEnabled,
                   m_localSettingsLocked, ackPc, ackBits, ackBefore>>
    /\ UNCHANGED nonLatchVars

\* {"fileTransfer", wsClient.getFileTransferEnabled()}
getFileTransferEnabled ==
    /\ statusPc = "fileTransfer"
    /\ statusResponse' = [statusResponse EXCEPT !.fileTransfer = m_fileTransferEnabled]
    /\ statusPc' = "localSettingsLocked"
    /\ lastOp' = [op |-> "getFileTransferEnabled", arg |-> ackBits, was |-> latchedNow]
    /\ UNCHANGED <<m_masterModeEnabled, m_fileTransferEnabled,
                   m_localSettingsLocked, ackPc, ackBits, ackBefore, statusWindow>>
    /\ UNCHANGED nonLatchVars

\* {"localSettingsLocked", wsClient.getLocalSettingsLocked()}: the response
\* object is complete
getLocalSettingsLocked ==
    /\ statusPc = "localSettingsLocked"
    /\ statusResponse' = [statusResponse EXCEPT
                             !.localSettingsLocked = m_localSettingsLocked]
    /\ statusPc' = "done"
    /\ lastOp' = [op |-> "getLocalSettingsLocked", arg |-> ackBits, was |-> latchedNow]
    /\ UNCHANGED <<m_masterModeEnabled, m_fileTransferEnabled,
                   m_localSettingsLocked, ackPc, ackBits, ackBefore, statusWindow>>
    /\ UNCHANGED nonLatchVars

\* res.set_content(response.dump(), "application/json"); the handler returns
statusReturn ==
    /\ statusPc = "done"
    /\ statusPc' = "idle"
    /\ lastOp' = [op |-> "statusReturn", arg |-> ackBits, was |-> latchedNow]
    /\ UNCHANGED <<m_masterModeEnabled, m_fileTransferEnabled,
                   m_localSettingsLocked, ackPc, ackBits, ackBefore, statusResponse,
                   statusWindow>>
    /\ UNCHANGED nonLatchVars

(***************************************************************************)
(* The supervisor loop of main step by step, the shutdown handler          *)
(* (signalHandler / ServiceCtrlHandler) and the loopback route             *)
(* POST /control-server/connect, which run beside it.  The client is kept  *)
(* as what isConnected() returns and what connect() has opened.            *)
(***************************************************************************)
LoopInit ==
    /\ g_running = TRUE
    /\ loopPc = "while"
    /\ clientConnected = FALSE
    /\ connectionsOpened = 0
    /\ registersSent = 0

\* connect() succeeds: the connection is established and sendRegistration()
\* writes the register frame
connectEstablished ==
    /\ clientConnected' = TRUE
    /\ connectionsOpened' = connectionsOpened + 1
    /\ registersSent' = registersSent + 1

\* "while (g_running)" and the one-second sleep of the loop head
loopWhile ==
    /\ loopPc = "while"
    /\ loopPc' = IF g_running THEN "check" ELSE "cleanup"
    /\ lastOp' = [op |-> "loopWhile", arg |-> g_running, was |-> clientConnected]
    /\ UNCHANGED <<g_running, clientConnected, connectionsOpened, registersSent>>
    /\ UNCHANGED nonLoopVars

\* "if (!wsClient.isConnected())": the delay is computed and the backoff
\* sleep begins, or the attempts are reset
loopIsConnected ==
    /\ loopPc = "check"
    /\ loopPc' = IF clientConnected THEN "while" ELSE "backoff"
    /\ lastOp' = [op |-> "loopIsConnected", arg |-> g_running, was |-> clientConnected]
    /\ UNCHANGED <<g_running, clientConnected, connectionsOpened, registersSent>>
    /\ UNCHANGED nonLoopVars

\* the backoff sleep is over: "if (g_running && wsClient.reconnect())",
\* the left operand
stillRunning == g_running

\* the backoff sleep returns and g_running is tested; when it holds
\* reconnect() is entered.  isConnected() is not called again
backoffElapsed ==
    /\ loopPc = "backoff"
    /\ loopPc' = IF stillRunning THEN "reconnect" ELSE "while"
    /\ lastOp' = [op |-> "backoffElapsed", arg |-> g_running, was |-> clientConnected]
    /\ UNCHANGED <<g_running, clientConnected, connectionsOpened, registersSent>>
    /\ UNCHANGED nonLoopVars

\* reconnect(): disconnect(), then the one-second sleep begins
reconnectDisconnect ==
    /\ loopPc = "reconnect"
    /\ clientConnected' = FALSE
    /\ loopPc' = "reconnect_sleep"
    /\ lastOp' = [op |-> "reconnectDisconnect", arg |-> g_running, was |-> clientConnected]
    /\ UNCHANGED <<g_running, connectionsOpened, registersSent>>
    /\ UNCHANGED nonLoopVars

\* reconnect(): "return connect(m_config);" after the sleep; connect()
\* returns true at once when the client is connected
reconnectConnect(success) ==
    /\ loopPc = "reconnect_sleep"
    /\ IF clientConnected \/ ~success
       THEN UNCHANGED <<clientConnected, connectionsOpened, registersSent>>
       ELSE /\ connectionsOpened < MaxConnections
            /\ connectEstablished
    /\ loopPc' = "while"
    /\ lastOp' = [op |-> "reconnectConnect", arg |-> g_running, was |-> clientConnected]
    /\ UNCHANGED g_running
    /\ UNCHANGED nonLoopVars

\* signalHandler(SIGINT / SIGTERM) and ServiceCtrlHandler(STOP / SHUTDOWN):
\* g_running = false, WebSocketClient::disconnect(), g_httpServer->stop()
signalHandler ==
    /\ g_running
    /\ g_running' = FALSE
    /\ clientConnected' = FALSE
    /\ lastOp' = [op |-> "signalHandler", arg |-> g_running, was |-> clientConnected]
    /\ UNCHANGED <<loopPc, connectionsOpened, registersSent>>
    /\ UNCHANGED nonLoopVars

\* POST /control-server/connect on an HTTP worker, served until the handler
\* has stopped the HTTP server: disconnect() if connected, then connect(config)
apiConnect(success) ==
    /\ g_running
    /\ IF success
       THEN /\ connectionsOpened < MaxConnections
            /\ connectEstablished
       ELSE /\ clientConnected' = FALSE
            /\ UNCHANGED <<connectionsOpened, registersSent>>
    /\ lastOp' = [op |-> "apiConnect", arg |-> g_running, was |-> clientConnected]
    /\ UNCHANGED <<g_running, loopPc>>
    /\ UNCHANGED nonLoopVars

\* the transport is lost: receiveLoop ends and sets m_connected = false
linkLost ==
    /\ clientConnected
    /\ clientConnected' = FALSE
    /\ lastOp' = [op |-> "linkLost", arg |-> g_running, was |-> clientConnected]
    /\ UNCHANGED <<g_running, loopPc, connectionsOpened, registersSent>>
    /\ UNCHANGED nonLoopVars

\* after the loop: the HTTP server is stopped and joined and main returns;
\* the singleton's destructor ~WebSocketClient() calls disconnect()
mainReturn ==
    /\ loopPc = "cleanup"
    /\ loopPc' = "returned"
    /\ clientConnected' = FALSE
    /\ lastOp' = [op |-> "mainReturn", arg |-> g_running, was |-> clientConnected]
    /\ UNCHANGED <<g_running, connectionsOpened, registersSent>>
    /\ UNCHANGED nonLoopVars

(***************************************************************************)
(* Initial state and the specifications of the components.                 *)
(***************************************************************************)
Init ==
    /\ UpdInit
    /\ ShellInit
    /\ WsInit
    /\ RelayInit
    /\ SendInit
    /\ FramingInit
    /\ CodecInit
    /\ PermInit
    /\ DispatchInit
    /\ CallerInit
    /\ SupervisorInit
    /\ ConfigInit
    /\ LockInit
    /\ LatchInit
    /\ LoopInit
    /\ lastOp = [op |-> "init", arg |-> 0, was |-> "IDLE"]

NextUpdate ==
    \/ \E config \in [autoDownload : BOOLEAN, autoInstall : BOOLEAN] :
         configure(config)
    \/ \E updateFlag \in UpdateFlags : onHeartbeat(updateFlag)
    \/ checkForUpdate
    \/ spawnCheck
    \/ downloadUpdate
    \/ spawnDownload
    \/ applyUpdate
    \/ applyUpdatePlatform
    \/ cancelDownload
    \/ Tick
    \/ workerCheckStart
    \/ workerCheckResponse
    \/ workerCheckAutoDownload
    \/ workerDownloadStart
    \/ workerDownloadFinish
    \/ workerDownloadAutoInstall
    \/ workerApplyUpdate
    \/ workerInstallResult
    \/ workerFailedTimestamp

SpecUpdate == Init /\ [][NextUpdate]_vars

NextShell ==
    \/ \E command \in Commands : exec(command)
    \/ \E command \in Commands : startSession(command)
    \/ \E sessionId \in 1..MaxSessions, signal \in SignalNames :
         stopSession(sessionId, signal)
    \/ \E sessionId \in 1..MaxSessions : sendInput(sessionId)
    \/ \E sessionId \in 1..MaxSessions : readOutput(sessionId)
    \/ listSessions
    \/ \E pid \in 1..MaxSessions : childExits(pid)

SpecShell == Init /\ [][NextShell]_vars

NextWs ==
    \/ setCommandCallback
    \/ controlServerConnect
    \/ controlServerDisconnect
    \/ reconnect
    \/ supervisorReconnect
    \/ disconnect
    \/ disconnectJoinHeartbeat
    \/ disconnectJoinReader
    \/ connect
    \/ connectSpawnReader
    \/ \E sock \in Sockets : transportLoss(sock)
    \/ receiveLoopTest
    \/ receiveLoopReadFails
    \/ \E type \in MessageTypes, id \in RequestIds : receiveLoopRead(type, id)
    \/ \E outcome \in HandlerOutcomes : handleRequest(outcome)
    \/ startHeartbeat
    \/ receiveLoopExit
    \/ heartbeatLoopTest
    \/ sendHeartbeat

SpecWs == Init /\ [][NextWs]_vars

\* the steps of the client's own threads are taken when they can be; what
\* the server sends and when the transport breaks is not the client's to
\* decide, and neither is when a caller calls connect() or disconnect()
WsFairness ==
    /\ WF_vars(disconnect)
    /\ WF_vars(disconnectJoinHeartbeat)
    /\ WF_vars(disconnectJoinReader)
    /\ WF_vars(connect)
    /\ WF_vars(connectSpawnReader)
    /\ WF_vars(receiveLoopTest)
    /\ WF_vars(receiveLoopReadFails)
    /\ WF_vars(\E outcome \in HandlerOutcomes : handleRequest(outcome))
    /\ WF_vars(startHeartbeat)
    /\ WF_vars(receiveLoopExit)
    /\ WF_vars(heartbeatLoopTest)
    /\ WF_vars(sendHeartbeat)

SpecWsFair == SpecWs /\ WsFairness

\* the connection handling without request messages, with relayed commands
NextRelay ==
    \/ controlServerConnect
    \/ controlServerDisconnect
    \/ reconnect
    \/ supervisorReconnect
    \/ disconnect
    \/ disconnectJoinHeartbeat
    \/ disconnectJoinReader
    \/ connect
    \/ connectSpawnReader
    \/ \E sock \in Sockets : transportLoss(sock)
    \/ receiveLoopTest
    \/ receiveLoopReadFails
    \/ \E type \in MessageTypes \ {"request"} : receiveLoopRead(type, "")
    \/ startHeartbeat
    \/ receiveLoopExit
    \/ heartbeatLoopTest
    \/ sendHeartbeat
    \/ relayCommand
    \/ \E id \in 1..MaxRelays, outcome \in HandlerOutcomes :
         handleRelayResponse(id, outcome)

SpecRelay == Init /\ [][NextRelay]_vars

NextSend ==
    \/ \E t \in Threads : \E kind \in FrameKinds[t] : buildFrame(t, kind)
    \/ \E t \in Threads : lockSendMutex(t)
    \/ \E t \in Threads : sslWriteBegin(t)
    \/ \E t \in Threads : sslWriteEnd(t)

SpecSend == Init /\ [][NextSend]_vars

NextFraming ==
    \/ serverSendsFrame
    \/ \E n \in 1..BufferUnits, misparse \in ParseOutcomes :
         receiveLoopParse(n, misparse)

SpecFraming == Init /\ [][NextFraming]_vars

NextCodec ==
    \/ \E len \in PayloadLengths, pattern \in PayloadPatterns,
          mask \in MaskKeys : sendTextFrame(len, pattern, mask)
    \/ \E len \in PingLengths, pattern \in PayloadPatterns,
          mask \in MaskKeys : receivePing(len, pattern, mask)

SpecCodec == Init /\ [][NextCodec]_vars

NextPerm ==
    \/ buildForWindows
    \/ setPermissionsCallback
    \/ setHeartbeatCallback
    \/ \E ack \in HeartbeatAcks : handleHeartbeatAck(ack)

SpecPerm == Init /\ [][NextPerm]_vars

NextDispatch ==
    \/ setGuiProxy
    \/ \E listening \in BOOLEAN : guiHelper(listening)
    \/ registerDispatcher
    \/ \E id \in RequestIds, method \in Methods,
          params \in ParamsOfDepth(MaxNesting) :
         handleRequestDispatch(id, method, params)

SpecDispatch == Init /\ [][NextDispatch]_vars

\* the connection handling with requests and two callers, without
\* heartbeats
NextReply ==
    \/ setCommandCallback
    \/ controlServerConnect
    \/ controlServerDisconnect
    \/ reconnect
    \/ supervisorReconnect
    \/ disconnect
    \/ disconnectJoinHeartbeat
    \/ disconnectJoinReader
    \/ connect
    \/ connectSpawnReader
    \/ \E outcome \in ConnectOutcomes : httpConnect(outcome)
    \/ httpConnectSpawnReader
    \/ \E sock \in Sockets : transportLoss(sock)
    \/ receiveLoopTest
    \/ receiveLoopReadFails
    \/ \E type \in MessageTypes \ {"registered"}, id \in RequestIds :
         receiveLoopRead(type, id)
    \/ \E outcome \in HandlerOutcomes : handleRequest(outcome)
    \/ receiveLoopExit

SpecReply == Init /\ [][NextReply]_vars

NextSupervisor ==
    \/ supervisorCheck
    \/ \E success \in BOOLEAN : supervisorAttempt(success)
    \/ connectionLost

SpecSupervisor == Init /\ [][NextSupervisor]_vars

NextConfig ==
    \/ \E config \in Configs : saveOpen(config)
    \/ saveWrite
    \/ saveReturn
    \/ crashInSave
    \/ load

SpecConfig == Init /\ [][NextConfig]_vars

NextShellThreads ==
    \/ \E t \in ShellCallers : forkSession(t)
    \/ \E t \in ShellCallers : insertSession(t)
    \/ \E t \in ShellCallers, op \in SessionCalls, sid \in 1..MaxSessions :
         callSession(t, op, sid)
    \/ \E t \in ShellCallers : lockSessionMutex(t)
    \/ \E t \in ShellCallers : sessionSyscalls(t)
    \/ \E t \in ShellCallers : unlockSessionMutex(t)

SpecShellThreads == Init /\ [][NextShellThreads]_vars

NextLatch ==
    \/ \E perms \in PermissionObjects : comparePermissions(perms)
    \/ storeMasterMode
    \/ storeFileTransfer
    \/ storeLocalSettingsLocked
    \/ getMasterModeEnabled
    \/ getFileTransferEnabled
    \/ getLocalSettingsLocked
    \/ statusReturn

SpecLatch == Init /\ [][NextLatch]_vars

NextLoop ==
    \/ loopWhile
    \/ loopIsConnected
    \/ backoffElapsed
    \/ reconnectDisconnect
    \/ \E success \in BOOLEAN : reconnectConnect(success)
    \/ signalHandler
    \/ \E success \in BOOLEAN : apiConnect(success)
    \/ linkLost
    \/ mainReturn

SpecLoop == Init /\ [][NextLoop]_vars

\* the update pipeline as the service drives it: main registers onHeartbeat
\* as the only caller of UpdateManager, and the server keeps signalling an
\* update (updateFlag > 0) in every ack.  A download is never started on
\* this path (the worker's own downloadUpdate() fails at its join)
NextPipeline ==
    \/ \E config \in [autoDownload : BOOLEAN, autoInstall : BOOLEAN] :
         configure(config)
    \/ \E updateFlag \in UpdateFlags \ {0} : onHeartbeat(updateFlag)
    \/ spawnCheck
    \/ Tick
    \/ workerCheckStart
    \/ workerCheckResponse
    \/ workerCheckAutoDownload
    \/ workerFailedTimestamp

\* the worker thread runs on
workerStep ==
    \/ workerCheckStart
    \/ workerCheckResponse
    \/ workerCheckAutoDownload
    \/ workerFailedTimestamp

\* the clock advances, acks keep arriving, a thread that can run does run,
\* and join() returns once the worker has finished
PipelineFairness ==
    /\ WF_vars(Tick)
    /\ WF_vars(\E updateFlag \in UpdateFlags \ {0} : onHeartbeat(updateFlag))
    /\ WF_vars(spawnCheck)
    /\ WF_vars(workerStep)

SpecPipelineFair == Init /\ [][NextPipeline]_vars /\ PipelineFairness

(***************************************************************************)
(* Claims about the update pipeline, checked under SpecUpdate.             *)
(***************************************************************************)
\* C1: the installer is entered for a downloaded artifact only if the
\* SHA-256 computed over the file equals the digest the check response
\* declared, for every digest the server can declare, the empty one included.
C1_InstallOnlyIfDigestMatches ==
    installerRun # NoRun => installerRun.computed = installerRun.declared

\* the edges of the specified update state machine
SpecifiedEdges ==
    {<<"IDLE", "CHECKING">>, <<"CHECKING", "UP_TO_DATE">>,
     <<"CHECKING", "AVAILABLE">>, <<"AVAILABLE", "DOWNLOADING">>,
     <<"DOWNLOADING", "DOWNLOADED">>, <<"DOWNLOADED", "INSTALLING">>,
     <<"FAILED", "IDLE">>}
    \cup {<<s, "FAILED">> :
            s \in {"IDLE", "CHECKING", "AVAILABLE", "DOWNLOADING",
                   "DOWNLOADED", "INSTALLING"}}

\* C7: every change of the update status follows an edge of the specified
\* machine, under any sequence of heartbeat acks and checkForUpdate,
\* downloadUpdate, applyUpdate and cancelDownload calls.
C7_StatusFollowsSpecifiedEdges ==
    [][m_status' # m_status => <<m_status, m_status'>> \in SpecifiedEdges]_vars

\* C8: when a check has returned updateAvailable = true and autoDownload is
\* enabled, the pipeline goes on from AVAILABLE to the download; it does not
\* enter FAILED before the download has been attempted.
C8_AutoDownloadProceeds ==
    (/\ lastOp.op = "workerCheckAutoDownload"
     /\ lastOp.was = "AVAILABLE"
     /\ m_updateConfig.autoDownload)
    => m_status # "FAILED"

\* C9: a heartbeat ack with updateFlag = 2 received while the status is
\* DOWNLOADED starts the installation during the processing of that ack,
\* whatever autoInstall is.
C9_ForcedInstallOnAck ==
    (lastOp.op = "onHeartbeat" /\ lastOp.arg = 2 /\ lastOp.was = "DOWNLOADED")
    => m_status = "INSTALLING"

\* C10 as stated: the heartbeat counter is reset only when a check is
\* started, and an ack with updateFlag = 0 neither starts a check nor resets
\* the counter.
C10_ResetOnlyOnCheck ==
    lastOp.op = "onHeartbeat" =>
        /\ m_heartbeatCount = 0 => updCaller = "join_check"
        /\ lastOp.arg = 0 => (updCaller # "join_check" /\ m_heartbeatCount # 0)

\* C10 as amended: every checkIntervalHeartbeats-th ack resets the counter,
\* whatever its updateFlag and whether or not a check starts; every other ack
\* only increments it.  An ack starts a check exactly when it is such an
\* interval ack, its updateFlag is positive and the status (after the reset
\* of a timed-out FAILED) is IDLE or UP_TO_DATE; an ack with updateFlag = 0
\* never starts a check.
C10_ResetOnEveryInterval ==
    [][\A updateFlag \in UpdateFlags :
         onHeartbeat(updateFlag) =>
           /\ m_heartbeatCount' =
                IF m_heartbeatCount + 1 >= CheckIntervalHeartbeats
                THEN 0 ELSE m_heartbeatCount + 1
           /\ (updCaller' = "join_check") <=>
                (/\ m_heartbeatCount + 1 >= CheckIntervalHeartbeats
                 /\ updateFlag > 0
                 /\ m_status' \in {"IDLE", "UP_TO_DATE"})
           /\ updateFlag = 0 => updCaller' = "idle"]_vars

\* C10 witness: an ack with updateFlag = 0 has reset the counter without
\* starting a check.
C10_Witness ==
    /\ lastOp.op = "onHeartbeat" /\ lastOp.arg = 0
    /\ m_heartbeatCount = 0
    /\ updCaller = "idle"

\* C11: the status goes from FAILED to IDLE only when at least
\* failedRetryTimeoutSeconds have elapsed since it most recently entered
\* FAILED.
C11_FailedResetOnlyAfterTimeout ==
    [][(m_status = "FAILED" /\ m_status' = "IDLE")
          => now - failedSince >= FailedRetryTimeoutSeconds]_vars

\* the hex digits of a digest in lower case
toLowerHex(digest) == IF digest = "AA" THEN "aa" ELSE digest

\* C12: when the file was downloaded and hashed and the declared sha256
\* equals the computed hex digest up to letter case, verification succeeds
\* and the pipeline reaches DOWNLOADED.
C12_ChecksumCaseInsensitive ==
    (/\ lastOp.op = "workerDownloadFinish"
     /\ lastOp.arg = "hashed"
     /\ toLowerHex(m_updateInfo.sha256) = toLowerHex(fileHash))
        => m_status = "DOWNLOADED"

(***************************************************************************)
(* Claims about the shell session manager, checked under SpecShell.        *)
(***************************************************************************)
\* C5: for every session id s returned by a successful start_session, every
\* list_sessions snapshot taken before a stop_session(s, _) has returned
\* success contains s, and no snapshot taken after that stop contains s.
C5_ListTracksSessions ==
    lastOp.op = "listSessions" =>
        \A s \in startedIds :
            (s \in shellResult.sessions) <=> (s \notin stoppedIds)

\* C5 witness: a snapshot was taken while one started session was still
\* listed and another one had been stopped.
C5_Witness ==
    /\ lastOp.op = "listSessions"
    /\ startedIds \ stoppedIds # {}
    /\ stoppedIds # {}

\* C6: no child process is ever spawned for a command the command filter
\* rejects; shell_exec and start_session both answer such a command with a
\* CommandBlocked error.
C6_NoSpawnForBlockedCommand ==
    /\ \A command \in spawnedCommands : ~isBlocked(command)
    /\ (lastOp.op \in {"exec", "startSession"} /\ isBlocked(lastOp.arg)) =>
          (~shellResult.success /\
           shellResult.error = "Command blocked by security policy")

\* the operations that take the id of an existing session
SessionOps == {"sendInput", "readOutput", "stopSession"}

\* C22: send_input, read_output and stop_session on an id that is not in
\* the session table return "Session not found" and change neither the
\* table nor a descriptor nor a child; an id whose stop_session succeeded
\* is not in the table, so a read_output or a second stop_session on it
\* returns that error.
C22_MissingSessionNotFound ==
    /\ [](stoppedIds \cap DOMAIN g_sessions = {})
    /\ [][(lastOp'.op \in SessionOps /\ lastOp'.arg \notin DOMAIN g_sessions) =>
            /\ ~shellResult'.success
            /\ shellResult'.error = "Session not found"
            /\ UNCHANGED <<g_sessions, children, openFds, sessionCount>>]_vars

\* read_output on a stopped session returned "Session not found"
C22_Witness ==
    /\ lastOp.op = "readOutput"
    /\ lastOp.arg \in stoppedIds
    /\ shellResult.error = "Session not found"

\* C23: the record of a session whose child has exited stays in the table
\* until stop_session removes it, and a send_input or read_output on such a
\* session reports a failure.
C23_DeadChildSurfacesFailure ==
    /\ [](\A id \in startedIds \ stoppedIds : id \in DOMAIN g_sessions)
    /\ []((/\ lastOp.op \in {"sendInput", "readOutput"}
           /\ lastOp.arg \in DOMAIN g_sessions
           /\ children[g_sessions[lastOp.arg].pid] # "running")
          => ~shellResult.success)

\* C24: the child of an erased session record has been reaped.
C24_ErasedSessionsAreReaped ==
    \A id \in stoppedIds : children[id] = "reaped"

(***************************************************************************)
(* Claims about the protocol client, checked under SpecWs.                 *)
(***************************************************************************)

C26_ResponseOnOriginatingConnection ==
    \A f \in Sockets \X RequestIds : responses[f] > 0 => f \in received

\* C3: at most one transport socket is open and at most one reader exists
\* at any time; when connect() has opened a socket, the previous socket is
\* closed and the previous reader joined.
C3_OneSocketOneReader ==
    /\ Cardinality(openSockets) <= 1
    /\ (lastOp.op = "connect" /\ lastOp.arg = "connected") =>
           /\ openSockets = {m_socket}
           /\ m_receiveThread.pc = "none"

\* C4: a heartbeat frame is written to a socket only after a registered
\* message was received on that socket.
C4_NoHeartbeatBeforeRegistered ==
    lastOp.op = "sendHeartbeat" => lastOp.arg \in registeredOn

\* C13: every completion handler stored by relayCommand is released exactly
\* once: a relay_response with its id invokes and removes it, disconnect()
\* drops what is still stored, so the map is empty when disconnect() has
\* returned, and no handler is invoked twice.
C13_RelayCallbacksReleasedOnce ==
    /\ \A id \in 1..MaxRelays : relayInvoked[id] <= 1
    /\ lastOp.op = "handleRelayResponse" => lastOp.arg[1] \notin m_relayCallbacks
    /\ lastOp.op = "disconnectJoinReader" => m_relayCallbacks = {}

\* C14: the bytes of one outgoing frame are never interleaved with those
\* of another: on the socket the first half of a frame is directly followed
\* by its second half, and every thread that writes holds the send mutex.
C14_WritesDoNotOverlap ==
    /\ \A i \in 1..Len(wire) :
         (wire[i][2] = 1 /\ i < Len(wire)) => wire[i + 1] = <<wire[i][1], 2>>
    /\ \A t \in Threads : sender[t].pc = "writing" => m_sendMutex = t

\* disconnect() has been entered and has not returned
disconnecting == wsCaller.pc \in {"disconnect", "joinHeartbeat", "joinReader"}

\* C15: disconnect() always terminates, also when the reader is blocked in
\* a read on a connection whose peer sends nothing.
C15_DisconnectTerminates == disconnecting ~> ~disconnecting

C17_FramesDeliveredOnceInOrder ==
    /\ Len(delivered) <= framesSent
    /\ \A i \in 1..Len(delivered) : delivered[i] = i
    /\ stream = <<>> => Len(delivered) = framesSent


(***************************************************************************)
(* Claims about the frames the protocol client builds.  parseFrame reads a *)
(* frame as RFC 6455 section 5.2 lays it out.                              *)
(***************************************************************************)

\* the big-endian number in bytes from..to of a header
RECURSIVE bigEndian(_, _, _)
bigEndian(header, from, to) ==
    IF to < from THEN 0
    ELSE 256 * bigEndian(header, from, to - 1) + header[to]

\* 7, 16 or 64: the length encoding a header uses
lengthEncoding(header) ==
    IF header[2] % 128 <= 125 THEN 7
    ELSE IF header[2] % 128 = 126 THEN 16
    ELSE 64

\* 7, 16 or 64: the one encoding RFC 6455 allows for a payload of n bytes
requiredEncoding(n) ==
    IF n <= 125 THEN 7 ELSE IF n <= 65535 THEN 16 ELSE 64

parseFrame(frame) ==
    LET header == frame.header
        encoding == lengthEncoding(header)
        length == IF encoding = 7 THEN header[2] % 128
                  ELSE IF encoding = 16 THEN bigEndian(header, 3, 4)
                  ELSE bigEndian(header, 3, 10)
    IN  [fin |-> header[1] \div 128 = 1,
         opcode |-> header[1] % 16,
         masked |-> header[2] \div 128 = 1,
         encoding |-> encoding,
         headerLen |-> Len(header),
         length |-> length,
         bodyLen |-> frame.body.len,
         payload |-> maskPayload(frame.body, frame.mask)]

\* two payloads are the same bytes
samePayload(p, q) ==
    /\ p.len = q.len
    /\ \A k \in 1..4 : k <= p.len => p.pattern[k] = q.pattern[k]

\* C18: the pong sent for a ping is one masked frame of opcode 0xA whose
\* unmasked payload is the payload of the ping.
C18_PongEchoesPingPayload ==
    lastOp.op = "receivePing" =>
        LET pong == parseFrame(pongFrame)
        IN  /\ pong.fin
            /\ pong.opcode = 10
            /\ pong.masked
            /\ pong.length = pong.bodyLen
            /\ samePayload(pong.payload, pingPayload)

\* C19: the frame built for a payload of n bytes re-parses to FIN = 1,
\* opcode text, MASK = 1 and length n in the encoding required for n, and
\* unmasking it with the frame's key gives the payload back.
C19_FrameRoundTrip ==
    lastOp.op = "sendTextFrame" =>
        LET parsed == parseFrame(textFrame)
        IN  /\ parsed.fin
            /\ parsed.opcode = 1
            /\ parsed.masked
            /\ parsed.encoding = requiredEncoding(textPayload.len)
            /\ parsed.headerLen = (CASE parsed.encoding = 7 -> 2
                                     [] parsed.encoding = 16 -> 4
                                     [] OTHER -> 10)
            /\ parsed.length = textPayload.len
            /\ parsed.bodyLen = textPayload.len
            /\ samePayload(parsed.payload, textPayload)

\* a payload of 65536 bytes was framed with a key that changes every byte
C19_Witness ==
    /\ lastOp.op = "sendTextFrame"
    /\ textPayload.len = 65536
    /\ \A k \in 1..4 : textFrame.body.pattern[k] # textPayload.pattern[k]


(***************************************************************************)
(* Claims about the latched permissions.                                   *)
(***************************************************************************)

\* C20: an ack whose permissions differ from the latched ones in at least
\* one of the three bits calls the registered permissions callback exactly
\* once; an ack whose permissions equal the latched ones does not call it.
C20_OneNotificationPerChange ==
    (/\ lastOp.op = "handleHeartbeatAck"
     /\ lastOp.arg.hasPermissions
     /\ m_permissionsCallback) =>
        Len(permissionsNotified) =
            IF permissionBits(lastOp.arg.permissions) # lastOp.was
            THEN 1 ELSE 0


\* C21: every heartbeat_ack calls the registered heartbeat callback (the
\* update pipeline's onHeartbeat) exactly once, with the ack's "u" if it is
\* there, else its "updateFlag", else 0, on every platform.
C21_OnHeartbeatOncePerAck ==
    (lastOp.op = "handleHeartbeatAck" /\ m_heartbeatCallback) =>
        heartbeatNotified =
            <<IF lastOp.arg.u # Absent THEN lastOp.arg.u
              ELSE IF lastOp.arg.updateFlag # Absent
                   THEN lastOp.arg.updateFlag
              ELSE 0>>


(***************************************************************************)
(* Claims about the command dispatcher.                                    *)
(***************************************************************************)

\* what dispatch returned says that the handler failed
handlerFailed == dispatchReturn.result.error # ""

\* C25: when the handler of a request fails, the response frame carries the
\* failure in its top-level "error" member and has no "result" member.
C25_FailureInErrorField ==
    (lastOp.op = "handleRequestDispatch" /\ handlerFailed) =>
        /\ responseFrame.hasError
        /\ responseFrame.error = dispatchReturn.result.error
        /\ ~responseFrame.hasResult

\* C27: with no GUI helper reachable (no proxy registered, or nothing
\* listening on the GUI port) a GUI method returns exactly
\* {"error": "GUI operations unavailable - tray app not connected"} and
\* calls nothing.
C27_GuiUnavailableError ==
    (/\ lastOp.op = "handleRequestDispatch"
     /\ m_commandCallback
     /\ dispatchCall.method \in GUI_METHODS
     /\ ~(m_guiProxy /\ guiListening)) =>
        dispatchReturn =
            [result |-> [success |-> "absent", echo |-> "",
                         error |-> "GUI operations unavailable - tray app not connected"],
             calls |-> <<>>]

\* C28: dispatch("tools/call", {name: m, arguments: a}) with m not empty
\* returns what dispatch(m, a) returns and makes the same tool calls, at
\* every nesting depth.
C28_ToolsCallIsDispatch ==
    (/\ lastOp.op = "handleRequestDispatch"
     /\ m_commandCallback
     /\ dispatchCall.method = "tools/call"
     /\ dispatchCall.params.name # ""
     /\ dispatchCall.params.arguments # <<>>) =>
        dispatchReturn =
            dispatch(dispatchCall.params.name, dispatchCall.params.arguments[1])

\* a tools/call nested in a tools/call ran a shell command
C28_Witness ==
    /\ lastOp.op = "handleRequestDispatch"
    /\ dispatchCall.method = "tools/call"
    /\ dispatchCall.params.name = "tools/call"
    /\ dispatchCall.params.arguments # <<>>
    /\ dispatchCall.params.arguments[1].name = "shell_exec"
    /\ dispatchReturn.calls = <<[tool |-> "exec", command |-> "ls"]>>


(***************************************************************************)
(* Claims about the supervisor loop.                                       *)
(***************************************************************************)

\* C29: after k consecutive failed reconnect attempts the delay before the
\* next attempt is min(5 * 2^k, 60) seconds, so always within 5..60, and the
\* attempt counter is 0 after a successful reconnect.
C29_BackoffDelay ==
    /\ (lastOp.op = "supervisorCheck" /\ ~lastOp.was) =>
           /\ reconnectDelay = (IF lastOp.arg >= 4 THEN 60
                                ELSE 5 * pow2(lastOp.arg))
           /\ reconnectDelay \in 5..60
    /\ (lastOp.op = "supervisorAttempt" /\ lastOp.arg) =>
           reconnectAttempts = 0


(***************************************************************************)
(* Claims about connection.json.                                           *)
(***************************************************************************)

\* C30: once a configuration has been saved, the file at the target path
\* holds at every moment, also inside a later save and after a crash in
\* it, either the complete previous configuration or the complete new one;
\* a load never finds an empty or partial document.
C30_SaveIsAtomic ==
    /\ committed # "none" =>
           /\ fileState(configFile) = "complete"
           /\ configFile.doc \in {committed, saving}
    /\ loaded \in {"nothing", "missing", "complete"}


(***************************************************************************)
(* Mutual exclusion of the update pipeline's steps.                        *)
(***************************************************************************)
\* the thread that called into UpdateManager is inside the platform installer
callerInInstaller == updCaller = "installing"

\* the worker thread is inside the platform installer
workerInInstaller == m_workerThread.pc = "w_installing"

\* C31: at most one task executes update-pipeline steps at any time; in
\* particular the installer of applyUpdate is never entered by the reader
\* thread (forced install in onHeartbeat) and by the worker thread (install
\* after download) for the same downloaded update
C31_InstallerEnteredOnce ==
    ~(callerInInstaller /\ workerInInstaller)


(***************************************************************************)
(* The session-table mutex and the sessions' descriptors.                  *)
(***************************************************************************)
\* C32: no read, write, signal or wait on a session's descriptors or process
\* is performed while the session-table mutex is held
C32_NoIoUnderSessionMutex ==
    lastSyscall.call # "none" => ~lastSyscall.locked

\* C40: under any interleaving of concurrent send_input, read_output and
\* stop_session calls on one session id, no descriptor is read or written
\* after stop_session has closed it and no descriptor is closed twice
C40_NoUseAfterClose ==
    lastSyscall.call # "none" => lastSyscall.valid

\* a stop_session has just closed the descriptor of a session while another
\* thread is waiting to operate on the same session id
C40_Witness ==
    /\ lastSyscall.call = "close"
    /\ \E t, u \in ShellCallers :
         /\ t # u
         /\ lastSyscall.thread = t
         /\ shellThread[t].pc = "unlock"
         /\ shellThread[u].pc = "lock"
         /\ shellThread[u].sid = lastSyscall.sid


(***************************************************************************)
(* The permission triple seen by a concurrent reader.                      *)
(***************************************************************************)
\* C33: the three permission bits are latched as one atomic unit: the triple
\* a complete status response carries is entirely a value latched before an
\* ack or entirely the value latched after it, never a mix
C33_TripleLatchedAtomically ==
    statusPc = "done" => statusResponse \in statusWindow


(***************************************************************************)
(* The supervisor loop, shutdown and the loopback API.                     *)
(***************************************************************************)
\* C34: once process shutdown has been requested (g_running is false) the
\* supervisor opens no new connection and sends no further register frame
C34_NoConnectAfterShutdown ==
    [][~g_running => /\ connectionsOpened' = connectionsOpened
                     /\ registersSent' = registersSent]_vars

\* C38: the supervisor never tears down a live connection: when its
\* reconnect() runs disconnect(), the client is disconnected
C38_SupervisorSparesLiveConnection ==
    lastOp.op = "reconnectDisconnect" => ~lastOp.was


(***************************************************************************)
(* Leaving FAILED.                                                         *)
(***************************************************************************)
\* the pipeline is in FAILED with the failure time recorded, and the clock
\* can still be followed up to the retry timeout
failedWithTimeLeft ==
    /\ m_status = "FAILED"
    /\ ~exited
    /\ m_workerThread.pc # "f_stamp"
    /\ m_failedTimestamp + FailedRetryTimeoutSeconds <= MaxTime

\* the worker thread of a new check has been created
checkStarted == m_workerThread = [kind |-> "check", pc |-> "c_start"]

\* a later failure whose retry timeout ends after the followed clock
clockExhausted ==
    m_status = "FAILED" /\ m_failedTimestamp + FailedRetryTimeoutSeconds > MaxTime

\* C35: the pipeline never stays in FAILED forever: while acks with
\* updateFlag > 0 keep arriving, the status is eventually reset to IDLE and a
\* new check is eventually started (unless an install replaces the process,
\* or a later failure falls beyond the followed clock)
C35_FailedResetToIdle ==
    /\ failedWithTimeLeft ~> (exited \/ m_status = "IDLE" \/ clockExhausted)
    /\ failedWithTimeLeft ~> (exited \/ checkStarted \/ clockExhausted)



(***************************************************************************)
(* Concurrent callers of connect(), disconnect() and reconnect().          *)
(***************************************************************************)
\* C36: connect(), disconnect() and reconnect() invoked from the supervisor
\* loop, the loopback HTTP workers and the shutdown handler never assign a
\* new reader thread while the previous reader thread object is still
\* joinable (an assignment that ends the process in std::terminate)
C36_ReaderNeverAssignedWhileJoinable ==
    ~terminated


(***************************************************************************)
(* The order of connection-state notifications.                            *)
(***************************************************************************)
\* the step calls m_connectionCallback(false): the end of receiveLoop and
\* the end of disconnect()
emitsDisconnected ==
    lastOp'.op \in {"receiveLoopExit", "disconnectJoinReader"}

\* the step calls m_connectionCallback(true): connect() has set m_connected
emitsConnected ==
    ~m_connected /\ m_connected'

\* C37: connection-state notifications strictly alternate: a
\* connectionCallback(false) is emitted only when the last notification was
\* connectionCallback(true), and a connectionCallback(true) only when it was
\* not
C37_NotificationsAlternate ==
    [][/\ emitsDisconnected => connectionNotified = "true"
       /\ emitsConnected => connectionNotified # "true"]_vars


(***************************************************************************)
(* Routing of the dispatcher.                                              *)
(***************************************************************************)
\* C39: dispatcher routing is unambiguous: the GUI method set and the method
\* names dispatch handles locally are disjoint, so a "wait" request reaches
\* the local wait handler and returns {success, waited_ms}
C39_LocalWaitIsReachable ==
    (lastOp.op = "handleRequestDispatch" /\ m_commandCallback
       /\ dispatchCall.method = "wait")
        => dispatchReturn = waitLocally
====
